---- MODULE Spec2Model ----
(***************************************************************************)
(* A state-machine model of the Weenix kernel slice: the open(2) path      *)
(* (kernel/fs/open.c), fork(2) (kernel/proc/fork.c) and mmap(2)/munmap(2)  *)
(* (the C text that follows the boot stub in kernel/boot/boot.S).          *)
(*                                                                         *)
(* Every system call is one action: the C function is translated into an   *)
(* operator from the kernel state before the call to the state after it,   *)
(* and the action applies that operator.  The routines these functions     *)
(* call but whose text is not part of the slice (fget, fput, fref,         *)
(* do_close, open_namev, vput, vmmap_*, the fault path) are modelled from  *)
(* their contracts and are marked so in the model map.                     *)
(***************************************************************************)
EXTENDS Integers, Sequences, FiniteSets, TLC

(***************************************************************************)
(* Bounds of the model.                                                    *)
(***************************************************************************)
\* slots of a process file table (NFILES of the kernel, scaled down)
NFILES == 2
\* file_t objects the slab allocator can hand out before fget(-1) fails
MaxFiles == 3
\* processes that can exist (proc_create is not called beyond it)
MaxProcs == 2
\* memory objects (anonymous and shadow) that can exist
MaxObjs == 4
\* areas one address-space map holds in the model
MaxAreas == 2
\* areas a map holds where mmap is run over all its argument shapes
MaxMapped == 1
\* references one file_t collects before the model stops mapping it
MaxRefs == 3
\* inodes on the S5FS disk
MaxInodes == 5
\* kernel threads in vnode operations
MaxThreads == 2
\* entries a directory may grow to
MaxEntries == 5
\* vnode operations started in one run
MaxCalls == 2
\* block slots of the regular file, and data blocks of the disk
MaxBlocks == 2
MaxDisk == 3

(***************************************************************************)
(* Program constants (errno.h, fcntl.h, file.h, mman.h, page.h, config.h). *)
(***************************************************************************)
ENOENT == 2
EBADF == 9
ENOMEM == 12
EACCES == 13
EISDIR == 21
EINVAL == 22
EMFILE == 24
EFAULT == 14
ENOTDIR == 20
ENOSPC == 28
ENAMETOOLONG == 36
ENOTEMPTY == 39

O_RDONLY == 0
O_WRONLY == 1
O_RDWR == 2
O_APPEND == 1024

FMODE_READ == 1
FMODE_WRITE == 2
FMODE_APPEND == 4

PROT_READ == 1
PROT_WRITE == 2

MAP_SHARED == 1
MAP_PRIVATE == 2
MAP_FIXED == 4
MAP_ANON == 8

PAGE_SHIFT == 12
PAGE_SIZE == 2 ^ PAGE_SHIFT
\* USER_MEM_LOW is 0x00400000.  USER_MEM_HIGH is 0xc0000000 in the kernel; the
\* model puts it at 0x40000000 so that every address fits TLC's 32-bit
\* integers.  As in the kernel, a user byte address is larger than any user
\* page number.
USER_MEM_LOW == 4194304
USER_MEM_HIGH == 1073741824

NULL == 0

\* fs/s5fs/s5fs.h
S5_NAME_LEN == 28
S5_MAGIC == 29311
S5_CURRENT_VERSION == 3
\* (uint32_t)-1 in s5s_free_inode: the free list is empty
S5_NO_FREE_INODE == -1

\* flags & bit, for a single-bit mask
HasBit(flags, bit) == (flags \div bit) % 2 = 1
\* a | bit
SetBit(flags, bit) == IF HasBit(flags, bit) THEN flags ELSE flags + bit

PAGE_ALIGNED(x) == x % PAGE_SIZE = 0
ADDR_TO_PN(x) == x \div PAGE_SIZE
PN_TO_ADDR(x) == x * PAGE_SIZE

(***************************************************************************)
(* The state.                                                              *)
(***************************************************************************)
VARIABLES
  procs,        \* the pids of the processes created so far
  p_files,      \* p_files[p][fd]: the file_t in slot fd of process p, or NULL
  p_vmmap,      \* p_vmmap[p]: the areas of p's map, ascending by vma_start
  files,        \* files[f]: the file_t f (f_refcount = 0: not allocated)
  vn_refcount,  \* vn_refcount[v]: reference count of vnode v
  mmobjs,       \* mmobjs[o]: the memory object o and its resident pages
  kt_ctx,       \* kt_ctx[p]: saved context of the thread of process p
  runq,         \* pids whose thread was handed to sched_make_runnable
  expected,     \* expected[p][vpn]: what p itself last stored at page vpn
  fault,        \* the kernel took a fault (a NULL dereference)
  last,         \* the last system call: its arguments and what it returned
  s5_super,     \* the superblock of the S5FS disk and the state of its mount
  s5_inodes,    \* s5_inodes[i]: type, link count and directory entries of inode i
  s5_vnodes,    \* s5_vnodes[i]: vn_refcount of the vnode of inode i (0: not in core)
  vn_mutex,     \* vn_mutex[i]: the thread holding the mutex of vnode i, or 0
  kthreads,     \* kthreads[t]: the vnode operation thread t is in, and where
  panicked,     \* the kernel called panic
  curthr,       \* the thread running in the kernel, 0 when none is
  ncalls,       \* the vnode operations started so far
  fk,           \* the do_fork call that is past line 90, and its next statement
  pt_user,      \* pt_user[p]: the page directory of p maps user pages
  tlb_user,     \* the TLB holds translations of user pages
  opens,        \* opens[t]: the do_open call of thread t of the init process
  s5_blocks,    \* block pointers of the regular file, free list, block contents
  pageop        \* the last page operation on the regular file and its result

vmvars == <<procs, p_files, p_vmmap, files, vn_refcount, mmobjs, kt_ctx, runq,
            expected, fault, last>>
s5vars == <<s5_super, s5_inodes, s5_vnodes, vn_mutex, kthreads, panicked, curthr,
            ncalls>>
stepvars == <<fk, pt_user, tlb_user, opens, s5_blocks, pageop>>
vars == <<procs, p_files, p_vmmap, files, vn_refcount, mmobjs, kt_ctx, runq,
          expected, fault, last, s5_super, s5_inodes, s5_vnodes, vn_mutex,
          kthreads, panicked, curthr, ncalls, fk, pt_user, tlb_user, opens,
          s5_blocks, pageop>>

Pids == 1 .. MaxProcs
Fds == 0 .. (NFILES - 1)
FileIds == 1 .. MaxFiles

\* The vnodes of the mounted file system: the root directory and one regular
\* file in it.
VRoot == 1
VFile == 2
Vnodes == {VRoot, VFile}
S_ISDIR(v) == v = VRoot

\* Memory objects: the page-cache object of each vnode, then the pool of
\* anonymous and shadow objects.
VnodeObj(v) == v
ObjIds == 1 .. (Cardinality(Vnodes) + MaxObjs)
PoolObjs == ObjIds \ {VnodeObj(v) : v \in Vnodes}

NoFile == [f_refcount |-> 0, f_mode |-> 0, f_vnode |-> NULL]

NoCall == [op |-> "none", pid |-> 0, ret |-> 0, fd |-> 0, oflags |-> 0,
           path |-> "", addr |-> 0, len |-> 0, prot |-> 0, flags |-> 0,
           off |-> 0, out |-> 0, child |-> 0, vpn |-> 0, val |-> 0,
           tlb |-> [vaddr |-> 0, pages |-> 0]]

(***************************************************************************)
(* fs/file.c and fs/vnode.c: the reference-counted file_t and vnode.       *)
(* A "kernel state" k is a record [ft, files, vn]: the file table of the   *)
(* current process, the file_t pool and the vnode reference counts.        *)
(***************************************************************************)
\* vref / the reference open_namev and vget return
vref(vn, v) == [vn EXCEPT ![v] = @ + 1]
vput(vn, v) == [vn EXCEPT ![v] = @ - 1]

\* fref(f) for f # NULL
fref(fs, f) == [fs EXCEPT ![f].f_refcount = @ + 1]

\* fget(-1): a fresh zeroed file_t with one reference, NULL when the allocator
\* has none left
FreeFiles(fs) == {f \in FileIds : fs[f].f_refcount = 0}
fget_fresh(fs) ==
  IF FreeFiles(fs) = {} THEN NULL
  ELSE CHOOSE f \in FreeFiles(fs) : \A g \in FreeFiles(fs) : f <= g

\* fget(fd): the file in slot fd, NULL when fd is out of range or the slot empty
fget_fd(ft, fd) == IF fd \in Fds THEN ft[fd] ELSE NULL

\* fput(f): drop one reference; the last one releases the vnode and the file_t
fput(k, f) ==
  IF k.files[f].f_refcount > 1
  THEN [k EXCEPT !.files[f].f_refcount = @ - 1]
  ELSE [k EXCEPT !.files[f] = NoFile,
                 !.vn = IF k.files[f].f_vnode = NULL THEN @
                        ELSE vput(@, k.files[f].f_vnode)]

\* do_close(fd): -EBADF for a bad descriptor, otherwise fput and clear the slot
do_close(k, fd) ==
  IF fd \notin Fds \/ k.ft[fd] = NULL THEN [k EXCEPT !.ret = -EBADF]
  ELSE LET k1 == fput(k, k.ft[fd])
       IN [k1 EXCEPT !.ft[fd] = NULL, !.ret = 0]

\* open_namev(filename, oflags, &result, NULL): the vnode a path names, with a
\* reference taken, or an error (result 0)
Paths == {"/", "/file", "/missing"}
open_namev(filename) ==
  CASE filename = "/" -> [status |-> 0, result |-> VRoot]
    [] filename = "/file" -> [status |-> 0, result |-> VFile]
    [] OTHER -> [status |-> -ENOENT, result |-> NULL]

(***************************************************************************)
(* kernel/fs/open.c                                                        *)
(***************************************************************************)
EmptyFds(ft) == {fd \in Fds : ft[fd] = NULL}
get_empty_fd(ft) ==
  IF EmptyFds(ft) = {} THEN -EMFILE
  ELSE CHOOSE fd \in EmptyFds(ft) : \A g \in EmptyFds(ft) : fd <= g

\* open_mode with O_APPEND tested as bit 0x200
open_mode_wrong_append(oflags) ==
  LET acc == oflags % 4
      base == IF acc = O_RDONLY THEN FMODE_READ
              ELSE IF acc = O_WRONLY THEN FMODE_WRITE
              ELSE IF acc = O_RDWR THEN FMODE_WRITE + FMODE_READ
              ELSE -EINVAL
  IN IF base < 0 THEN base
     ELSE IF HasBit(oflags, 512) THEN SetBit(base, FMODE_APPEND) ELSE base

\* the access mode open.c lines 83-93 compute from oflags; -EINVAL when
\* (oflags & 3) is none of O_RDONLY, O_WRONLY, O_RDWR
open_mode(oflags) ==
  LET acc == oflags % 4
      base == IF acc = O_RDONLY THEN FMODE_READ
              ELSE IF acc = O_WRONLY THEN FMODE_WRITE
              ELSE IF acc = O_RDWR THEN FMODE_WRITE + FMODE_READ
              ELSE -EINVAL
  IN IF base < 0 THEN base
     ELSE IF HasBit(oflags, O_APPEND) THEN SetBit(base, FMODE_APPEND) ELSE base

\* do_open_resolve with the vput of line 109 forgotten
do_open_resolve_no_vput(k, new_fd, f, filename) ==
  LET r == open_namev(filename)
      k1 == IF r.status = 0 THEN [k EXCEPT !.vn = vref(@, r.result)] ELSE k
  IN IF r.status # 0
     THEN [do_close(k1, new_fd) EXCEPT !.ft[new_fd] = NULL, !.ret = r.status]
     ELSE IF S_ISDIR(r.result) /\ HasBit(k1.files[f].f_mode, FMODE_WRITE)
     THEN [do_close(k1, new_fd) EXCEPT !.ret = -EISDIR]
     ELSE [k1 EXCEPT !.files[f].f_vnode = r.result, !.ret = new_fd]

\* do_open after the mode is set (lines 97-113): resolve the path, undo on
\* failure
do_open_resolve(k, new_fd, f, filename) ==
  LET r == open_namev(filename)
      k1 == IF r.status = 0 THEN [k EXCEPT !.vn = vref(@, r.result)] ELSE k
  IN IF r.status # 0
     THEN [do_close(k1, new_fd) EXCEPT !.ft[new_fd] = NULL, !.ret = r.status]
     ELSE IF S_ISDIR(r.result) /\ HasBit(k1.files[f].f_mode, FMODE_WRITE)
     THEN LET k2 == do_close(k1, new_fd)
          IN [k2 EXCEPT !.vn = vput(@, r.result), !.ret = -EISDIR]
     ELSE [k1 EXCEPT !.files[f].f_vnode = r.result, !.ret = new_fd]

do_open(k, filename, oflags) ==
  LET new_fd == get_empty_fd(k.ft)
      f == fget_fresh(k.files)
  IN IF new_fd = -EMFILE THEN [k EXCEPT !.ret = -EMFILE]
     ELSE IF f = NULL THEN [k EXCEPT !.ret = -ENOMEM]
     ELSE LET k1 == [k EXCEPT !.files = fref(@, f), !.ft[new_fd] = f]
              mode == open_mode(oflags)
          IN IF mode < 0
             THEN [do_close(k1, new_fd) EXCEPT !.ret = -EINVAL]
             ELSE do_open_resolve([k1 EXCEPT !.files[f].f_mode = mode],
                                  new_fd, f, filename)

\* the kernel state seen by a system call of process p
KState(p) == [ft |-> p_files[p], files |-> files, vn |-> vn_refcount, ret |-> 0]


(***************************************************************************)
(* mm/mmobj.c, vm/anon.c, vm/shadow.c: memory objects.  mmobjs[o].pages    *)
(* maps the page numbers resident in o to the page contents.               *)
(***************************************************************************)
NoPages == [n \in {} |-> 0]
NoObj == [kind |-> "free", shadowed |-> NULL, refcount |-> 0, pages |-> NoPages]

FreeObjs(m) == {o \in PoolObjs : m[o].kind = "free"}
\* the object anon_create / shadow_create return next
NextObj(m) == CHOOSE o \in FreeObjs(m) : \A q \in FreeObjs(m) : o <= q
\* shadow_create() and anon_create(): a fresh object with one reference
mmobj_create(m, o, kind) ==
  [m EXCEPT ![o] = [kind |-> kind, shadowed |-> NULL, refcount |-> 1,
                    pages |-> NoPages]]
mmobj_ref(m, o) == [m EXCEPT ![o].refcount = @ + 1]

\* o->mmo_ops->put(o): drop a reference; the last reference to an anonymous or
\* shadow object frees its pages and, for a shadow, puts the object below
RECURSIVE mmobj_put(_, _)
mmobj_put(m, o) ==
  IF m[o].refcount > 1 \/ m[o].kind = "vnode"
  THEN [m EXCEPT ![o].refcount = @ - 1]
  ELSE LET below == m[o].shadowed
           m1 == [m EXCEPT ![o] = NoObj]
       IN IF below = NULL THEN m1 ELSE mmobj_put(m1, below)

\* the shadow chain of o, front to bottom
RECURSIVE Chain(_, _)
Chain(m, o) ==
  IF m[o].shadowed = NULL THEN <<o>> ELSE <<o>> \o Chain(m, m[o].shadowed)
BottomObj(m, o) == LET c == Chain(m, o) IN c[Len(c)]

\* shadow lookuppage: the first object of the chain holding the page; a page
\* resident nowhere is filled by the bottom object (zeros for an anonymous
\* object and for an unwritten file page)
RECURSIVE LookupPage(_, _, _)
LookupPage(m, o, pagenum) ==
  IF pagenum \in DOMAIN m[o].pages THEN m[o].pages[pagenum]
  ELSE IF m[o].shadowed = NULL THEN 0
  ELSE LookupPage(m, m[o].shadowed, pagenum)

StorePage(m, o, pagenum, val) ==
  [m EXCEPT ![o].pages = [n \in (DOMAIN @) \cup {pagenum} |->
                            IF n = pagenum THEN val ELSE @[n]]]

(***************************************************************************)
(* vm/vmmap.c: the address-space map, a list of areas ascending by start.  *)
(***************************************************************************)
USER_LOW_PAGE == ADDR_TO_PN(USER_MEM_LOW)
USER_HIGH_PAGE == ADDR_TO_PN(USER_MEM_HIGH)

Area(start, end, off, prot, flags, obj) ==
  [vma_start |-> start, vma_end |-> end, vma_off |-> off, vma_prot |-> prot,
   vma_flags |-> flags, vma_obj |-> obj]

AreaPages(a) == a.vma_start .. (a.vma_end - 1)
MapAreas(map) == {map[i] : i \in 1 .. Len(map)}
MapPages(map) == UNION {AreaPages(a) : a \in MapAreas(map)}

\* vmmap_lookup: the index of the area containing vfn, 0 when there is none
vmmap_lookup(map, vfn) ==
  IF \E i \in 1 .. Len(map) : vfn \in AreaPages(map[i])
  THEN CHOOSE i \in 1 .. Len(map) : vfn \in AreaPages(map[i])
  ELSE 0

\* vmmap_is_range_empty
vmmap_is_range_empty(map, start, npages) ==
  \A a \in MapAreas(map) : a.vma_end <= start \/ start + npages <= a.vma_start

\* vmmap_find_range, VMMAP_DIR_HILO: the start of the highest hole of npages
\* pages, -1 when there is none.  A highest hole ends at the top of user
\* memory or at the start of an area.
HoleEnds(map) == {USER_HIGH_PAGE} \cup {a.vma_start : a \in MapAreas(map)}
HoleStarts(map, npages) ==
  {e - npages : e \in {x \in HoleEnds(map) :
      x - npages >= USER_LOW_PAGE /\ vmmap_is_range_empty(map, x - npages, npages)}}
vmmap_find_range(map, npages) ==
  IF HoleStarts(map, npages) = {} THEN -1
  ELSE CHOOSE s \in HoleStarts(map, npages) :
         \A t \in HoleStarts(map, npages) : t <= s

\* vmmap_insert: keep the list ascending by vma_start
vmmap_insert(map, a) ==
  LET lower == SelectSeq(map, LAMBDA b : b.vma_start < a.vma_start)
      upper == SelectSeq(map, LAMBDA b : b.vma_start >= a.vma_start)
  IN lower \o <<a>> \o upper

\* vmmap_remove on one area: what is left of area a once [lo, hi) is unmapped
AreaLeft(a, lo, hi) ==
  IF a.vma_end <= lo \/ hi <= a.vma_start THEN <<a>>
  ELSE (IF a.vma_start < lo THEN <<[a EXCEPT !.vma_end = lo]>> ELSE <<>>)
       \o (IF hi < a.vma_end
           THEN <<[a EXCEPT !.vma_start = hi,
                            !.vma_off = @ + (hi - a.vma_start)]>>
           ELSE <<>>)

RECURSIVE RemoveFrom(_, _, _)
RemoveFrom(map, lo, hi) ==
  IF map = <<>> THEN <<>>
  ELSE AreaLeft(Head(map), lo, hi) \o RemoveFrom(Tail(map), lo, hi)

\* the reference counts after an area list changed from old to new: every area
\* cites its object once
RECURSIVE PutAll(_, _)
PutAll(m, objs) ==
  IF objs = <<>> THEN m ELSE PutAll(mmobj_put(m, Head(objs)), Tail(objs))
RECURSIVE RefAll(_, _)
RefAll(m, objs) ==
  IF objs = <<>> THEN m ELSE RefAll(mmobj_ref(m, Head(objs)), Tail(objs))
ObjsOf(map) == [i \in 1 .. Len(map) |-> map[i].vma_obj]

\* vmmap_remove(map, lopage, npages): split, truncate or delete every
\* overlapping area; the areas left cite their objects, the deleted ones put
\* theirs
vmmap_remove(map, m, lopage, npages) ==
  LET left == RemoveFrom(map, lopage, lopage + npages)
  IN [map |-> left, mmobjs |-> PutAll(RefAll(m, ObjsOf(left)), ObjsOf(map))]

\* vmmap_map(map, file, lopage, npages, prot, flags, off, dir, &new):
\* file = NULL for MAP_ANON, else the vnode.  Returns the status, the map, the
\* objects and the new area.
vmmap_map(map, m, file, lopage, npages, prot, flags, off) ==
  LET fail(e) == [status |-> e, map |-> map, mmobjs |-> m, new_area |-> NULL]
      start == IF lopage # 0 THEN lopage ELSE vmmap_find_range(map, npages)
  IN IF lopage # 0 /\ (lopage < USER_LOW_PAGE \/ lopage + npages > USER_HIGH_PAGE)
     THEN fail(-EINVAL)
     ELSE IF start < 0 THEN fail(-ENOMEM)
     ELSE
       LET r == vmmap_remove(map, m, start, npages)
           bottom == IF file = NULL THEN NextObj(r.mmobjs) ELSE VnodeObj(file)
           m1 == IF file = NULL THEN mmobj_create(r.mmobjs, bottom, "anon")
                 ELSE mmobj_ref(r.mmobjs, bottom)
           top == IF HasBit(flags, MAP_PRIVATE) THEN NextObj(m1) ELSE bottom
           m2 == IF HasBit(flags, MAP_PRIVATE)
                 THEN [mmobj_create(m1, top, "shadow") EXCEPT ![top].shadowed = bottom]
                 ELSE m1
           a == Area(start, start + npages, ADDR_TO_PN(off), prot, flags, top)
       IN [status |-> 0, map |-> vmmap_insert(r.map, a), mmobjs |-> m2,
           new_area |-> a]

\* vmmap_clone: a copy of the area list; each copied area cites the object of
\* the area it was copied from
vmmap_clone(map, m) == [map |-> map, mmobjs |-> RefAll(m, ObjsOf(map))]


(***************************************************************************)
(* do_mmap and do_munmap (kernel/boot/boot.S, lines 122-188).              *)
(***************************************************************************)
\* line 125
mmap_args_bad(addr, len, off) ==
  ~PAGE_ALIGNED(addr) \/ ~PAGE_ALIGNED(len) \/ ~PAGE_ALIGNED(off) \/ len = 0
\* line 129
mmap_addr_bad(addr) ==
  addr # 0 /\ (addr < USER_MEM_LOW \/ addr >= USER_MEM_HIGH)
\* the flags test with the "neither" half left out
mmap_flags_bad_both_only(flags) ==
  HasBit(flags, MAP_PRIVATE) /\ HasBit(flags, MAP_SHARED)

\* lines 133-134
mmap_flags_bad(flags) ==
  \/ HasBit(flags, MAP_PRIVATE) /\ HasBit(flags, MAP_SHARED)
  \/ ~HasBit(flags, MAP_PRIVATE) /\ ~HasBit(flags, MAP_SHARED)
\* lines 153-156
mmap_access_bad(f_mode, prot, flags) ==
  \/ ~HasBit(f_mode, FMODE_READ)
  \/ HasBit(flags, MAP_SHARED) /\ HasBit(prot, PROT_WRITE)
       /\ ~HasBit(f_mode, FMODE_WRITE)
  \/ HasBit(prot, PROT_WRITE) /\ f_mode = FMODE_APPEND

\* the value stored through ret on success (line 169)
mmap_ret(new_area) == new_area.vma_start

\* tlb_flush_range(vaddr, pages): the call's arguments; pages = 0 when the
\* call is not made
NoFlush == [vaddr |-> 0, pages |-> 0]

\* lines 166-167: if (new_area) tlb_flush_range(new_area->vma_start, ...)
mmap_flush(new_area, len) ==
  [vaddr |-> new_area.vma_start, pages |-> len \div PAGE_SIZE]

\* line 186: tlb_flush_range((uint32_t)addr, len / PAGE_SIZE)
munmap_flush(addr, len) == [vaddr |-> addr, pages |-> len \div PAGE_SIZE]

\* out = -1: *ret was not written.  undef: new_area is read at line 166
\* although vmmap_map did not write it
do_mmap(k, map, m, addr, len, prot, flags, fd, off) ==
  LET done(e, kk) == [ret |-> e, out |-> -1, files |-> kk.files, vn |-> kk.vn,
                      map |-> map, mmobjs |-> m, tlb |-> NoFlush,
                      undef |-> FALSE]
      file == IF HasBit(flags, MAP_ANON) THEN NULL ELSE fget_fd(k.ft, fd)
      k1 == IF file = NULL THEN k ELSE [k EXCEPT !.files = fref(@, file)]
  IN IF mmap_args_bad(addr, len, off) THEN done(-EINVAL, k)
     ELSE IF mmap_addr_bad(addr) THEN done(-EINVAL, k)
     ELSE IF mmap_flags_bad(flags) THEN done(-EINVAL, k)
     ELSE IF ~HasBit(flags, MAP_ANON) /\ file = NULL THEN done(-EBADF, k)
     ELSE IF file # NULL /\ mmap_access_bad(k1.files[file].f_mode, prot, flags)
     THEN done(-EACCES, fput(k1, file))
     ELSE
       LET r == vmmap_map(map, m,
                          IF file = NULL THEN NULL ELSE k1.files[file].f_vnode,
                          ADDR_TO_PN(addr), len \div PAGE_SIZE, prot, flags, off)
       IN [ret |-> r.status,
           out |-> IF r.status = 0 THEN mmap_ret(r.new_area) ELSE -1,
           files |-> k1.files, vn |-> k1.vn, map |-> r.map, mmobjs |-> r.mmobjs,
           tlb |-> IF r.status = 0 THEN mmap_flush(r.new_area, len) ELSE NoFlush,
           undef |-> r.status # 0]

\* do_munmap refusing a range in which nothing is mapped
do_munmap_refuses_unmapped(map, m, addr, len) ==
  IF ~PAGE_ALIGNED(addr) \/ ~PAGE_ALIGNED(len) \/ len = 0
  THEN [ret |-> -EINVAL, map |-> map, mmobjs |-> m, tlb |-> NoFlush]
  ELSE IF addr < USER_MEM_LOW \/ addr >= USER_MEM_HIGH
  THEN [ret |-> -EINVAL, map |-> map, mmobjs |-> m, tlb |-> NoFlush]
  ELSE IF vmmap_is_range_empty(map, ADDR_TO_PN(addr), len \div PAGE_SIZE)
  THEN [ret |-> -EINVAL, map |-> map, mmobjs |-> m, tlb |-> NoFlush]
  ELSE LET r == vmmap_remove(map, m, addr, len \div PAGE_SIZE)
       IN [ret |-> 0, map |-> r.map, mmobjs |-> r.mmobjs,
           tlb |-> munmap_flush(addr, len)]

\* do_munmap hands the byte address to vmmap_remove as its page number
\* (line 185)
do_munmap(map, m, addr, len) ==
  IF ~PAGE_ALIGNED(addr) \/ ~PAGE_ALIGNED(len) \/ len = 0
  THEN [ret |-> -EINVAL, map |-> map, mmobjs |-> m, tlb |-> NoFlush]
  ELSE IF addr < USER_MEM_LOW \/ addr >= USER_MEM_HIGH
  THEN [ret |-> -EINVAL, map |-> map, mmobjs |-> m, tlb |-> NoFlush]
  ELSE LET r == vmmap_remove(map, m, addr, len \div PAGE_SIZE)
       IN [ret |-> 0, map |-> r.map, mmobjs |-> r.mmobjs,
           tlb |-> munmap_flush(addr, len)]

(***************************************************************************)
(* do_fork (kernel/proc/fork.c).                                           *)
(***************************************************************************)
\* proc_create: the next pid
NextPid == CHOOSE c \in Pids \ procs : \A d \in Pids \ procs : c <= d

\* line 67: for (i = 0; i < NFILES; ++i) fref(new_proc->p_files[i]);
\* fref dereferences its argument, so the first empty slot faults
RECURSIVE fork_fref_loop(_, _, _)
fork_fref_loop(fs, ft, i) ==
  IF i >= NFILES THEN [files |-> fs, fault |-> FALSE]
  ELSE IF ft[i] = NULL THEN [files |-> fs, fault |-> TRUE]
  ELSE fork_fref_loop(fref(fs, ft[i]), ft, i + 1)

\* Positions in a circular list of n items: 0 is the list head, 1..n the items.
ListNext(n, pos) == IF pos = n THEN 0 ELSE pos + 1
ListPrev(n, pos) == IF pos = 0 THEN n ELSE pos - 1

\* lines 82-89, at the areas in positions link (parent) and link2 (child).
\* list_item of a list head is no area: those positions are left alone.
fork_shadow_body(s, link, link2) ==
  IF link = 0 \/ link2 = 0 \/ ~HasBit(s.pmap[link].vma_flags, MAP_PRIVATE)
  THEN s
  ELSE LET shadow == NextObj(s.mmobjs)
           m1 == mmobj_create(s.mmobjs, shadow, "shadow")
           shadow2 == NextObj(m1)
           m2 == mmobj_create(m1, shadow2, "shadow")
           below == s.pmap[link].vma_obj
       IN [pmap |-> [s.pmap EXCEPT ![link].vma_obj = shadow],
           cmap |-> [s.cmap EXCEPT ![link2].vma_obj = shadow2],
           mmobjs |-> [m2 EXCEPT ![shadow].shadowed = below,
                                 ![shadow2].shadowed = below]]

\* lines 75-90: link starts at the parent's first item and link2 at the
\* child's last one; the loop runs while link differs from the parent's first
\* item and link2 from the child's first item
RECURSIVE fork_shadow_loop(_, _, _)
fork_shadow_loop(s, link, link2) ==
  IF link # ListNext(Len(s.pmap), 0) /\ link2 # ListNext(Len(s.cmap), 0)
  THEN fork_shadow_loop(fork_shadow_body(s, link, link2),
                        ListNext(Len(s.pmap), link), ListNext(Len(s.cmap), link2))
  ELSE s

fork_shadows(pmap, cmap, m) ==
  fork_shadow_loop([pmap |-> pmap, cmap |-> cmap, mmobjs |-> m],
                   ListNext(Len(pmap), 0), ListPrev(Len(cmap), 0))

\* the value do_fork returns to its caller (line 111)
fork_ret(child) == 0

\* fork_setup_stack copies *regs to the top of the child's kernel stack
fork_setup_stack(regs) == regs

NoCtx == [c_eip |-> "", c_pdptr |-> 0, regs |-> [r_eax |-> 0]]

(***************************************************************************)
(* The fault path (vm/pagefault.c): a user access to page vfn of process p *)
(***************************************************************************)
\* the object page an access to vfn resolves to
PageOff(a, vfn) == vfn - a.vma_start + a.vma_off
ReadPage(map, m, vfn) ==
  LET a == map[vmmap_lookup(map, vfn)]
  IN LookupPage(m, a.vma_obj, PageOff(a, vfn))
\* a write goes to the area's own object: the topmost shadow of a private
\* area, the bottom object of a shared one
WritePage(map, m, vfn, val) ==
  LET a == map[vmmap_lookup(map, vfn)]
  IN StorePage(m, a.vma_obj, PageOff(a, vfn), val)

IsPrivAnon(a) == HasBit(a.vma_flags, MAP_PRIVATE) /\ HasBit(a.vma_flags, MAP_ANON)
PrivAnonPages(map) == UNION {AreaPages(a) : a \in {b \in MapAreas(map) : IsPrivAnon(b)}}
\* what the owner of map expects in its private anonymous pages after the map
\* changed: zeros in the pages of a new area, what it held elsewhere
ExpectAfter(exp, map, fresh) ==
  [vfn \in PrivAnonPages(map) |->
     IF vfn \in fresh \/ vfn \notin DOMAIN exp THEN 0 ELSE exp[vfn]]


(***************************************************************************)
(* S5FS (kernel/fs/s5fs/s5fs.c).  The disk holds MaxInodes inodes; a       *)
(* directory is its list of entries.  The subroutines of s5fs_subr.c, the  *)
(* vnode cache and the mutexes are not part of this file and follow the    *)
(* specification.                                                          *)
(***************************************************************************)
Inos == 0 .. (MaxInodes - 1)
Threads == 1 .. MaxThreads
Names == {"a", "b", "f"}

NoInode == [type |-> "free", linkcount |-> 0, entries |-> <<>>]
Dirent(name, ino) == [name |-> name, ino |-> ino]

\* the part of the kernel a vnode operation works on
S5State == [inodes |-> s5_inodes, vnodes |-> s5_vnodes, mutex |-> vn_mutex,
            panic |-> FALSE, ret |-> 0]

\* s5_alloc_inode: pop a free inode; nospace: the free list cannot be read
FreeInodes(inodes) == {i \in Inos : inodes[i].type = "free"}
s5_alloc_inode(k, type, nospace) ==
  IF nospace \/ FreeInodes(k.inodes) = {} THEN [k EXCEPT !.ret = -ENOSPC]
  ELSE LET ino == CHOOSE i \in FreeInodes(k.inodes) :
                    \A j \in FreeInodes(k.inodes) : i <= j
       IN [k EXCEPT !.inodes[ino] = [NoInode EXCEPT !.type = type], !.ret = ino]

\* s5_find_dirent: linear scan, the inode of the first entry called name
EntryIndex(entries, name) ==
  IF \E i \in 1 .. Len(entries) : entries[i].name = name
  THEN CHOOSE i \in 1 .. Len(entries) :
         /\ entries[i].name = name
         /\ \A j \in 1 .. (i - 1) : entries[j].name # name
  ELSE 0
s5_find_dirent(inodes, dir, name) ==
  IF EntryIndex(inodes[dir].entries, name) = 0 THEN -ENOENT
  ELSE inodes[dir].entries[EntryIndex(inodes[dir].entries, name)].ino

\* s5_link: a new entry name -> target in dir; the link count of target
\* grows, except for the entry of a directory to itself ("." by convention
\* is not counted).  nospace: no block for the entry.
s5_link(k, dir, target, name, nospace) ==
  IF nospace THEN [k EXCEPT !.ret = -ENOSPC]
  ELSE [k EXCEPT !.inodes[dir].entries = Append(@, Dirent(name, target)),
                 !.inodes[target].linkcount = IF target = dir THEN @ ELSE @ + 1,
                 !.ret = 0]

\* s5_remove_dirent: drop the entry; the link count of its inode falls, and
\* the inode is freed at zero when no vnode refers to it
RemoveAt(seq, i) == SubSeq(seq, 1, i - 1) \o SubSeq(seq, i + 1, Len(seq))
s5_remove_dirent(k, dir, name) ==
  LET i == EntryIndex(k.inodes[dir].entries, name)
      target == k.inodes[dir].entries[i].ino
      k1 == [k EXCEPT !.inodes[dir].entries = RemoveAt(@, i),
                      !.inodes[target].linkcount =
                         IF target = dir \/ @ = 0 THEN @ ELSE @ - 1,
                      !.ret = 0]
  IN IF i = 0 THEN [k EXCEPT !.ret = -ENOENT]
     ELSE IF k1.inodes[target].linkcount = 0 /\ k1.vnodes[target] = 0
     THEN [k1 EXCEPT !.inodes[target] = NoInode]
     ELSE k1

\* s5fs_read_vnode, s5fs_delete_vnode, s5fs_query_vnode (lines 206-242): not
\* yet implemented; they change nothing and query answers 0
s5fs_read_vnode(k, ino) == k
s5fs_delete_vnode(k, ino) == k
s5fs_query_vnode(k, ino) == 0

\* vget: the vnode of inode ino with one more reference, read in on a miss
vget(k, ino) ==
  IF k.vnodes[ino] = 0
  THEN s5fs_read_vnode([k EXCEPT !.vnodes[ino] = 1], ino)
  ELSE [k EXCEPT !.vnodes[ino] = @ + 1]

\* vput of an S5FS vnode: one reference less; at zero the vnode is dropped,
\* and deleted when query_vnode reports no reference on disk
s5_vput(k, ino) ==
  LET k1 == [k EXCEPT !.vnodes[ino] = @ - 1]
  IN IF k1.vnodes[ino] = 0 /\ s5fs_query_vnode(k1, ino) = 0
     THEN s5fs_delete_vnode(k1, ino)
     ELSE k1

kmutex_unlock(k, v) == [k EXCEPT !.mutex[v] = 0]

\* KASSERT: panic when the condition is false
KASSERT(k, cond) == IF cond THEN k ELSE [k EXCEPT !.panic = TRUE]

\* s5fs_readdir's s5_read_file, in units of one entry: 1 and the name at
\* index offset when there is one, 0 and the buffer untouched at the end
readdir_status(inodes, v, offset) ==
  IF offset < Len(inodes[v].entries) THEN 1 ELSE 0
readdir_entry(inodes, v, offset, entry) ==
  IF offset < Len(inodes[v].entries) THEN inodes[v].entries[offset + 1].name
  ELSE entry

(***************************************************************************)
(* The vnode operations, each from the point where its first kmutex_lock   *)
(* has returned.  fail names the subroutine call that fails (0: none), io  *)
(* is what the page-cache or block subroutine returns.                     *)
(***************************************************************************)
\* the checks made before any mutex is taken: namelen (lines 365, 394, 423,
\* 448, 468, 498, 543) and s5fs_stat's ss (line 613)
NameOps == {"create", "mknod", "lookup", "link", "unlink", "mkdir", "rmdir"}
s5fs_entry_check(op, namelen, ss) ==
  IF op \in NameOps /\ namelen > S5_NAME_LEN THEN -ENAMETOOLONG
  ELSE IF op = "stat" /\ ss = NULL THEN -EFAULT
  ELSE 0

\* s5fs_read (lines 323-329) and s5fs_write (lines 332-339)
s5fs_read(k, vnode, io) == [kmutex_unlock(k, vnode) EXCEPT !.ret = io]
s5fs_write(k, vnode, io) == [kmutex_unlock(k, vnode) EXCEPT !.ret = io]

\* s5fs_create (lines 362-381)
s5fs_create(k, dir, name, fail) ==
  LET a == s5_alloc_inode(k, "data", fail = 1)
      ino == a.ret
      l == s5_link(vget(a, ino), dir, ino, name, fail = 2)
      u == kmutex_unlock(l, dir)
  IN IF ino < 0 THEN [kmutex_unlock(a, dir) EXCEPT !.ret = ino]
     ELSE [KASSERT(u, u.vnodes[ino] = 1) EXCEPT !.ret = l.ret]

\* s5fs_mknod (lines 391-413); mode is "chr", "blk" or something else
s5fs_mknod(k, dir, name, mode, fail) ==
  LET a == s5_alloc_inode(k, mode, fail = 1)
      ino == a.ret
      l == s5_link(vget(a, ino), dir, ino, name, fail = 2)
  IN IF mode \notin {"chr", "blk"} THEN [k EXCEPT !.panic = TRUE]
     ELSE IF ino < 0 THEN [kmutex_unlock(a, dir) EXCEPT !.ret = ino]
     ELSE [kmutex_unlock(l, dir) EXCEPT !.ret = l.ret]

\* s5fs_lookup (lines 420-435)
s5fs_lookup(k, base, name) ==
  LET ino == s5_find_dirent(k.inodes, base, name)
  IN IF ino < 0 THEN [kmutex_unlock(k, base) EXCEPT !.ret = ino]
     ELSE [kmutex_unlock(vget(k, ino), base) EXCEPT !.ret = 0]

\* s5fs_link (lines 452-455), both mutexes held
s5fs_link(k, src, dir, name, fail) ==
  LET l == s5_link(k, dir, src, name, fail = 1)
  IN [kmutex_unlock(kmutex_unlock(l, src), dir) EXCEPT !.ret = l.ret]

\* s5fs_unlink (lines 466-474)
s5fs_unlink(k, dir, name) ==
  LET r == s5_remove_dirent(k, dir, name)
  IN [kmutex_unlock(r, dir) EXCEPT !.ret = r.ret]

\* s5fs_mkdir returning with dir still locked when "." cannot be made
s5fs_mkdir_keeps_lock(k, dir, name, fail) ==
  LET a == s5_alloc_inode(k, "dir", fail = 1)
      ino == a.ret
      l1 == s5_link(vget(a, ino), dir, ino, name, fail = 2)
      l2 == s5_link(l1, ino, ino, ".", fail = 3)
      l3 == s5_link(l2, ino, dir, "..", fail = 4)
      u == kmutex_unlock(l3, dir)
  IN IF ino < 0 THEN [kmutex_unlock(a, dir) EXCEPT !.ret = ino]
     ELSE IF l1.ret # 0
     THEN [kmutex_unlock(s5_vput(l1, ino), dir) EXCEPT !.ret = l1.ret]
     ELSE IF l2.ret # 0 THEN [l2 EXCEPT !.ret = l2.ret]
     ELSE IF l3.ret # 0 THEN [kmutex_unlock(l3, dir) EXCEPT !.ret = l3.ret]
     ELSE [KASSERT(u, u.vnodes[ino] = 2) EXCEPT !.ret = l3.ret]

\* s5fs_mkdir (lines 496-529)
s5fs_mkdir(k, dir, name, fail) ==
  LET a == s5_alloc_inode(k, "dir", fail = 1)
      ino == a.ret
      l1 == s5_link(vget(a, ino), dir, ino, name, fail = 2)
      l2 == s5_link(l1, ino, ino, ".", fail = 3)
      l3 == s5_link(l2, ino, dir, "..", fail = 4)
      u == kmutex_unlock(l3, dir)
  IN IF ino < 0 THEN [kmutex_unlock(a, dir) EXCEPT !.ret = ino]
     ELSE IF l1.ret # 0
     THEN [kmutex_unlock(s5_vput(l1, ino), dir) EXCEPT !.ret = l1.ret]
     ELSE IF l2.ret # 0 THEN [kmutex_unlock(l2, dir) EXCEPT !.ret = l2.ret]
     ELSE IF l3.ret # 0 THEN [kmutex_unlock(l3, dir) EXCEPT !.ret = l3.ret]
     ELSE [KASSERT(u, u.vnodes[ino] = 2) EXCEPT !.ret = l3.ret]

\* s5fs_readdir (lines 594-600), in units of one entry
s5fs_readdir(k, vnode, offset) ==
  [kmutex_unlock(k, vnode) EXCEPT !.ret = readdir_status(k.inodes, vnode, offset)]

\* s5fs_stat (lines 615-624)
s5fs_stat(k, vnode) == [kmutex_unlock(k, vnode) EXCEPT !.ret = 0]

\* s5fs_fillpage (lines 636-650): io is the block number s5_seek_to_block
\* finds, fail = 1 when read_block fails
s5fs_fillpage(k, vnode, io, fail) ==
  IF io < 0 THEN [kmutex_unlock(k, vnode) EXCEPT !.ret = io]
  ELSE [kmutex_unlock(k, vnode) EXCEPT
          !.ret = IF io # 0 /\ fail = 1 THEN -ENOSPC ELSE 0]

\* s5fs_dirtypage (lines 669-679): io is the first s5_seek_to_block, fail = 1
\* when the allocating one finds no block
s5fs_dirtypage(k, vnode, io, fail) ==
  IF io <= 0 THEN [kmutex_unlock(k, vnode) EXCEPT !.ret = io]
  ELSE [kmutex_unlock(k, vnode) EXCEPT !.ret = IF fail = 1 THEN -ENOSPC ELSE io]

\* s5fs_cleanpage (lines 688-698)
s5fs_cleanpage(k, vnode, io, fail) ==
  IF io <= 0 THEN [kmutex_unlock(k, vnode) EXCEPT !.ret = io]
  ELSE [kmutex_unlock(k, vnode) EXCEPT !.ret = IF fail = 1 THEN -ENOSPC ELSE 0]

\* s5fs_rmdir from the lock of the parent to the first s5fs_readdir (lines
\* 549-563): ret = 1 stands for "go on to the loop", vn is the vnode found
s5fs_rmdir_find(k, parent, name) ==
  LET ino == s5_find_dirent(k.inodes, parent, name)
      g == vget(k, ino)
  IN IF ino < 0 THEN [vn |-> 0, k |-> [kmutex_unlock(k, parent) EXCEPT !.ret = ino]]
     ELSE IF k.inodes[parent].type # "dir"
     THEN [vn |-> ino,
           k |-> [kmutex_unlock(s5_vput(g, ino), parent) EXCEPT !.ret = -ENOTDIR]]
     ELSE [vn |-> ino, k |-> [g EXCEPT !.ret = 1]]

\* the loop of lines 563-572 after a readdir has filled entry: "return" with
\* ENOTEMPTY, "again" for another s5fs_readdir, "remove" when offset is 0
s5fs_rmdir_loop(offset, entry) ==
  IF offset = 0 THEN "remove"
  ELSE IF entry = "." \/ entry = ".." THEN "again"
  ELSE IF entry # "" THEN "return"
  ELSE "again"

\* lines 568-570
s5fs_rmdir_notempty(k, parent, vn) ==
  [kmutex_unlock(s5_vput(k, vn), parent) EXCEPT !.ret = -ENOTEMPTY]

\* lines 575-583
s5fs_rmdir_remove(k, parent, vn, name) ==
  LET r1 == s5_remove_dirent(k, vn, "..")
      r2 == s5_remove_dirent(r1, parent, name)
  IN IF r1.ret # 0 THEN [kmutex_unlock(r1, parent) EXCEPT !.ret = r1.ret]
     ELSE [kmutex_unlock(r2, parent) EXCEPT !.ret = r2.ret]

(***************************************************************************)
(* Mount and unmount (s5fs_mount, s5fs_umount) and the structural checks.  *)
(***************************************************************************)
\* s5_check_super (lines 707-720): -1 when the superblock is corrupt
s5_check_super(super) ==
  IF ~(/\ super.s5s_magic = S5_MAGIC
       /\ (super.s5s_free_inode < super.s5s_num_inodes
             \/ super.s5s_free_inode = S5_NO_FREE_INODE)
       /\ super.s5s_root_inode < super.s5s_num_inodes)
  THEN -1
  ELSE IF super.s5s_version # S5_CURRENT_VERSION THEN -1
  ELSE 0

\* calculate_refcounts (lines 722-754): the directories the walk from the
\* root visits, and for each inode the number of entries other than "." that
\* name it in those directories, plus the first visit of the root
RECURSIVE Visited(_, _, _)
Visited(inodes, seen, n) ==
  LET more == seen \cup UNION
        {{inodes[d].entries[i].ino :
            i \in {j \in 1 .. Len(inodes[d].entries) :
                     inodes[d].entries[j].name # "."}} :
           d \in {x \in seen : inodes[x].type = "dir"}}
  IN IF n = 0 \/ more = seen THEN seen ELSE Visited(inodes, more, n - 1)

calculate_refcounts(inodes, root) ==
  LET dirs == {d \in Visited(inodes, {root}, MaxInodes) : inodes[d].type = "dir"}
  IN [i \in Inos |->
        (IF i = root THEN 1 ELSE 0)
        + Cardinality({e \in dirs \X (1 .. MaxEntries) :
              /\ e[2] <= Len(inodes[e[1]].entries)
              /\ inodes[e[1]].entries[e[2]].name # "."
              /\ inodes[e[1]].entries[e[2]].ino = i})]

\* s5fs_check_refcounts (lines 762-806): -1 on a mismatch
s5fs_check_refcounts(inodes, root) ==
  LET counts == calculate_refcounts(inodes, root)
      refcounts == [counts EXCEPT ![root] = @ - 1]
  IN IF \E i \in Inos : refcounts[i] # 0 /\ refcounts[i] # inodes[i].linkcount - 1
     THEN -1 ELSE 0

\* s5fs_mount (lines 121-174) of device name dev; nomem: kmalloc fails.
\* sscanf reads a number after "disk"; only disk0 exists.
Devices == {"disk0", "disk9", "tty0"}
s5fs_mount(k, super, dev, nomem) ==
  IF dev \notin {"disk0", "disk9"} THEN [k EXCEPT !.ret = -EINVAL]
  ELSE IF dev # "disk0" THEN [k EXCEPT !.ret = -EINVAL]
  ELSE IF nomem THEN [k EXCEPT !.ret = -ENOMEM]
  ELSE IF s5_check_super(super) # 0 THEN [k EXCEPT !.ret = -EINVAL]
  ELSE [vget(k, super.s5s_root_inode) EXCEPT !.ret = 0]

\* s5fs_umount (lines 248-296); fs_root is the vnode s5fs_mount stored
s5fs_umount(k, super, fs_root) ==
  IF s5fs_check_refcounts(k.inodes, fs_root) # 0 THEN [k EXCEPT !.panic = TRUE]
  ELSE IF s5_check_super(super) # 0 THEN [k EXCEPT !.panic = TRUE]
  ELSE [s5_vput(k, fs_root) EXCEPT !.ret = 0]

(***************************************************************************)
(* Kernel threads in vnode operations.  The kernel is not preemptible: the *)
(* thread that runs (curthr) keeps running until it waits for a mutex,     *)
(* waits for the page cache inside an s5_ subroutine, or returns.          *)
(***************************************************************************)
NoThread == [op |-> "none", pc |-> "idle", v |-> 0, src |-> 0, name |-> "",
             mode |-> "", fail |-> 0, io |-> 0, vn |-> 0, offset |-> 0,
             entry |-> "", ret |-> 0, held |-> {}]

Held(mutex, t) == {i \in Inos : mutex[i] = t}
LockPcs == {"lock_src", "lock", "rd0_lock", "rd_lock", "hook_lock"}
\* the mutex a thread at a kmutex_lock is about to take
Wants(th) == IF th.pc = "lock_src" THEN th.src
             ELSE IF th.pc \in {"lock", "hook_lock"} THEN th.v
             ELSE th.vn
Waiting(t) ==
  /\ kthreads[t].pc \in LockPcs
  /\ vn_mutex[Wants(kthreads[t])] # 0

S5Ops == {"read", "write", "create", "mknod", "lookup", "link", "unlink",
          "mkdir", "rmdir", "readdir", "stat", "fillpage", "dirtypage",
          "cleanpage"}
DirOps == {"create", "mknod", "lookup", "link", "unlink", "mkdir", "rmdir",
           "readdir"}
FileOps == {"read", "write"}
AddOps == {"create", "mknod", "link", "mkdir"}

\* the vnodes the dispatch through vn_ops lets operation op be called on
\* (lines 75-110)
OpVnodes(op) ==
  IF op \in DirOps THEN {i \in Inos : s5_inodes[i].type = "dir"}
  ELSE IF op \in FileOps THEN {i \in Inos : s5_inodes[i].type = "data"}
  ELSE {i \in Inos : s5_inodes[i].type # "free"}

S5Running == ~panicked /\ s5_super.mounted

\* what the state becomes when a step of an operation ended in k
S5Store(k) ==
  /\ s5_inodes' = k.inodes
  /\ s5_vnodes' = k.vnodes
  /\ vn_mutex' = k.mutex
  /\ panicked' = k.panic

\* which subroutine failures and results matter to an operation; for read
\* and write fail = 1 says that the page s5_read_file or s5_write_file needs
\* is not in the page cache
OpFails(op, fails) ==
  IF op = "mkdir" THEN fails \cap (0 .. 4)
  ELSE IF op \in {"create", "mknod"} THEN fails \cap (0 .. 2)
  ELSE IF op \in {"link", "fillpage", "dirtypage", "cleanpage", "read", "write"}
  THEN fails \cap (0 .. 1)
  ELSE {0}
OpIos(op, ios) ==
  IF op \in {"read", "write", "fillpage", "dirtypage", "cleanpage"} THEN ios
  ELSE IF op = "stat" THEN {NULL, 1}
  ELSE {0}

\* thread t enters vnode operation op; the checks before the first lock are
\* made at once.  For s5fs_stat io is the pointer ss.  The callers (namev.c,
\* vfs_syscall.c) add a name that is not in the directory yet and link no
\* directory.
S5Call(ts, ops, fails, ios, lens) ==
  /\ S5Running
  /\ curthr = 0
  /\ ncalls < MaxCalls
  /\ \E t \in ts, op \in ops :
     \E v \in OpVnodes(op), fail \in OpFails(op, fails), io \in OpIos(op, ios),
        namelen \in (IF op \in NameOps THEN lens ELSE {0}),
        src \in (IF op = "link"
                 THEN {i \in Inos : s5_inodes[i].type \notin {"free", "dir"}}
                 ELSE {0}),
        name \in (IF op \in NameOps THEN Names ELSE {""}),
        mode \in (IF op = "mknod" THEN {"chr", "blk", "dir"} ELSE {""}) :
       /\ kthreads[t].op = "none"
       /\ op \in AddOps => /\ EntryIndex(s5_inodes[v].entries, name) = 0
                           /\ Len(s5_inodes[v].entries) < MaxEntries
       /\ \E chk \in {s5fs_entry_check(op, namelen, io)} :
            /\ kthreads' = [kthreads EXCEPT ![t] =
                 [NoThread EXCEPT !.op = op, !.v = v, !.src = src, !.name = name,
                                  !.mode = mode, !.fail = fail, !.io = io,
                                  !.held = Held(vn_mutex, t), !.ret = chk,
                                  !.pc = IF chk # 0 THEN "done"
                                         ELSE IF op = "link" THEN "lock_src"
                                         ELSE "lock"]]
            /\ curthr' = IF chk # 0 THEN 0 ELSE t
  /\ ncalls' = ncalls + 1
  /\ UNCHANGED <<s5_super, s5_inodes, s5_vnodes, vn_mutex, panicked>>
  /\ UNCHANGED <<vmvars, stepvars>>

\* kmutex_lock on a mutex that is held: the thread sleeps
S5Block(ts) ==
  /\ S5Running
  /\ \E t \in ts : curthr = t /\ Waiting(t)
  /\ curthr' = 0
  /\ UNCHANGED <<s5_super, s5_inodes, s5_vnodes, vn_mutex, kthreads, panicked>>
  /\ UNCHANGED <<ncalls, vmvars, stepvars>>

\* kmutex_lock on a free mutex.  After the lock of src s5fs_link goes on to
\* the lock of dir; after every other lock comes a subroutine that waits for
\* the page cache.
S5Lock(ts) ==
  /\ S5Running
  /\ \E t \in ts :
       LET th == kthreads[t]
       IN /\ curthr \in {0, t}
          /\ th.pc \in LockPcs
          /\ vn_mutex[Wants(th)] = 0
          /\ vn_mutex' = [vn_mutex EXCEPT ![Wants(th)] = t]
          /\ kthreads' = [kthreads EXCEPT ![t].pc =
               CASE th.pc = "lock_src" -> "lock"
                 [] th.pc = "lock" -> "body"
                 [] th.pc = "rd0_lock" -> "rd0_body"
                 [] th.pc = "hook_lock" -> "hook_body"
                 [] OTHER -> "rd_body"]
          /\ curthr' = IF th.pc = "lock_src" THEN t ELSE 0
  /\ UNCHANGED <<s5_super, s5_inodes, s5_vnodes, panicked>>
  /\ UNCHANGED <<ncalls, vmvars, stepvars>>

\* the operation, from its lock to its return
S5OpBody(th) ==
  CASE th.op = "read" -> s5fs_read(S5State, th.v, th.io)
    [] th.op = "write" -> s5fs_write(S5State, th.v, th.io)
    [] th.op = "create" -> s5fs_create(S5State, th.v, th.name, th.fail)
    [] th.op = "mknod" -> s5fs_mknod(S5State, th.v, th.name, th.mode, th.fail)
    [] th.op = "lookup" -> s5fs_lookup(S5State, th.v, th.name)
    [] th.op = "link" -> s5fs_link(S5State, th.src, th.v, th.name, th.fail)
    [] th.op = "unlink" -> s5fs_unlink(S5State, th.v, th.name)
    [] th.op = "mkdir" -> s5fs_mkdir(S5State, th.v, th.name, th.fail)
    [] th.op = "readdir" -> s5fs_readdir(S5State, th.v, 0)
    [] th.op = "stat" -> s5fs_stat(S5State, th.v)
    [] th.op = "fillpage" -> s5fs_fillpage(S5State, th.v, th.io, th.fail)
    [] th.op = "dirtypage" -> s5fs_dirtypage(S5State, th.v, th.io, th.fail)
    [] OTHER -> s5fs_cleanpage(S5State, th.v, th.io, th.fail)

S5Body(ts) ==
  /\ S5Running
  /\ curthr = 0
  /\ \E t \in ts :
       /\ kthreads[t].pc = "body"
       /\ kthreads[t].op # "rmdir"
       /\ ~(kthreads[t].op \in FileOps /\ kthreads[t].fail = 1)
       /\ \E k \in {S5OpBody(kthreads[t])} :
            /\ S5Store(k)
            /\ kthreads' = [kthreads EXCEPT
                 ![t].pc = IF k.panic THEN "panic" ELSE "done",
                 ![t].ret = k.ret]
  /\ UNCHANGED <<s5_super, curthr>>
  /\ UNCHANGED <<ncalls, vmvars, stepvars>>

\* s5fs_read and s5fs_write on a page that is not in the page cache:
\* s5_read_file and s5_write_file (lines 326, 336) get the page through
\* pframe_get, which fills it through the vnode's fillpage entry (lines 89,
\* 108), and s5fs_fillpage begins with kmutex_lock of the same vnode (line
\* 636)
S5PageMiss(ts) ==
  /\ S5Running
  /\ curthr = 0
  /\ \E t \in ts :
       /\ kthreads[t].pc = "body"
       /\ kthreads[t].op \in FileOps
       /\ kthreads[t].fail = 1
       /\ kthreads' = [kthreads EXCEPT ![t].pc = "hook_lock"]
       /\ curthr' = t
  /\ UNCHANGED <<s5_super, s5_inodes, s5_vnodes, vn_mutex, panicked>>
  /\ UNCHANGED <<ncalls, vmvars, stepvars>>

\* s5fs_rmdir up to its first s5fs_readdir
S5RmdirFind(ts) ==
  /\ S5Running
  /\ curthr = 0
  /\ \E t \in ts :
       /\ kthreads[t].pc = "body"
       /\ kthreads[t].op = "rmdir"
       /\ \E r \in {s5fs_rmdir_find(S5State, kthreads[t].v, kthreads[t].name)} :
            /\ S5Store(r.k)
            /\ IF r.k.ret = 1
               THEN /\ kthreads' = [kthreads EXCEPT ![t].pc = "rd0_lock",
                                                    ![t].vn = r.vn]
                    /\ curthr' = t
               ELSE /\ kthreads' = [kthreads EXCEPT ![t].pc = "done",
                                                    ![t].vn = r.vn,
                                                    ![t].ret = r.k.ret]
                    /\ curthr' = 0
  /\ UNCHANGED s5_super
  /\ UNCHANGED <<ncalls, vmvars, stepvars>>

\* one s5fs_readdir of the loop of s5fs_rmdir and what the loop does with it
S5RmdirReaddir(ts) ==
  /\ S5Running
  /\ curthr = 0
  /\ \E t \in ts :
       LET th == kthreads[t]
           rdoff == IF th.pc = "rd0_body" THEN 0 ELSE th.offset
       IN /\ th.pc \in {"rd0_body", "rd_body"}
          /\ \E rk \in {s5fs_readdir(S5State, th.vn, rdoff)} :
             \E entry \in {readdir_entry(s5_inodes, th.vn, rdoff, th.entry)},
                offset \in {IF th.pc = "rd0_body" THEN rk.ret ELSE th.offset} :
             \E next \in {s5fs_rmdir_loop(offset, entry)} :
             \E k \in {IF next = "again" THEN rk
                       ELSE IF next = "return"
                       THEN s5fs_rmdir_notempty(rk, th.v, th.vn)
                       ELSE s5fs_rmdir_remove(rk, th.v, th.vn, th.name)} :
               /\ S5Store(k)
               /\ kthreads' = [kthreads EXCEPT
                    ![t].entry = entry, ![t].offset = offset,
                    ![t].pc = IF next = "again" THEN "rd_lock" ELSE "done",
                    ![t].ret = IF next = "again" THEN 0 ELSE k.ret]
               /\ curthr' = IF next = "again" THEN t ELSE 0
  /\ UNCHANGED s5_super
  /\ UNCHANGED <<ncalls, vmvars, stepvars>>

\* the operation has returned to its caller
S5Return(ts) ==
  /\ S5Running
  /\ \E t \in ts :
       /\ kthreads[t].pc = "done"
       /\ kthreads' = [kthreads EXCEPT ![t] = NoThread]
  /\ UNCHANGED <<s5_super, s5_inodes, s5_vnodes, vn_mutex, panicked, curthr>>
  /\ UNCHANGED <<ncalls, vmvars, stepvars>>

\* s5fs_mount of the disk image
S5Mount(devs, nomems) ==
  /\ ~panicked
  /\ ~s5_super.mounted
  /\ \E dev \in devs, nomem \in nomems :
     \E k \in {s5fs_mount(S5State, s5_super.super, dev, nomem)} :
       /\ S5Store(k)
       /\ s5_super' = [s5_super EXCEPT !.mounted = (k.ret = 0),
                                       !.fs_root = IF k.ret = 0
                                                   THEN s5_super.super.s5s_root_inode
                                                   ELSE @,
                                       !.op = "mount", !.dev = dev,
                                       !.nomem = nomem, !.ret = k.ret]
  /\ UNCHANGED <<kthreads, curthr>>
  /\ UNCHANGED <<ncalls, vmvars, stepvars>>

\* s5fs_umount
S5Umount ==
  /\ S5Running
  /\ \A t \in Threads : kthreads[t].op = "none"
  /\ \E k \in {s5fs_umount(S5State, s5_super.super, s5_super.fs_root)} :
       /\ S5Store(k)
       /\ s5_super' = [s5_super EXCEPT !.mounted = k.panic,
                                       !.op = "umount", !.ret = k.ret]
  /\ UNCHANGED <<kthreads, curthr>>
  /\ UNCHANGED <<ncalls, vmvars, stepvars>>

\* the superblock, or a link count, goes bad while the file system is mounted
CorruptSuper(images) ==
  /\ S5Running
  /\ \E super \in images :
       /\ super # s5_super.super
       /\ s5_super' = [s5_super EXCEPT !.super = super, !.op = "none", !.ret = 0]
  /\ UNCHANGED <<s5_inodes, s5_vnodes, vn_mutex, kthreads, panicked, curthr>>
  /\ UNCHANGED <<ncalls, vmvars, stepvars>>

(***************************************************************************)
(* The disk: the root with a directory a and a file f in it.  delta is     *)
(* what every link count on the disk is off by.                            *)
(***************************************************************************)
DiskInodes(delta) ==
  [i \in Inos |->
     CASE i = 0 -> [type |-> "dir", linkcount |-> 2 + delta,
                    entries |-> <<Dirent(".", 0), Dirent("..", 0),
                                  Dirent("a", 1), Dirent("f", 2)>>]
       [] i = 1 -> [type |-> "dir", linkcount |-> 1 + delta,
                    entries |-> <<Dirent(".", 1), Dirent("..", 0)>>]
       [] i = 2 -> [type |-> "data", linkcount |-> 1 + delta, entries |-> <<>>]
       [] OTHER -> NoInode]

GoodSuper == [s5s_magic |-> S5_MAGIC, s5s_version |-> S5_CURRENT_VERSION,
              s5s_free_inode |-> 3, s5s_num_inodes |-> MaxInodes,
              s5s_root_inode |-> 0]
SuperImages ==
  [s5s_magic : {S5_MAGIC, 0},
   s5s_version : {S5_CURRENT_VERSION, S5_CURRENT_VERSION + 1},
   s5s_free_inode : {3, MaxInodes, S5_NO_FREE_INODE},
   s5s_num_inodes : {MaxInodes},
   s5s_root_inode : {0, MaxInodes}]

\* the file system mounted, nothing running
InitS5 ==
  /\ s5_super = [super |-> GoodSuper, mounted |-> TRUE, fs_root |-> 0,
                 op |-> "none", dev |-> "", nomem |-> FALSE, ret |-> 0]
  /\ s5_inodes = DiskInodes(0)
  /\ s5_vnodes = [i \in Inos |-> IF i = 0 THEN 1 ELSE 0]
  /\ vn_mutex = [i \in Inos |-> 0]
  /\ kthreads = [t \in Threads |-> NoThread]
  /\ panicked = FALSE
  /\ curthr = 0
  /\ ncalls = 0

(***************************************************************************)
(* Calls that are followed statement by statement: the end of do_fork,     *)
(* do_open across open_namev, and the page operations of the regular file. *)
(***************************************************************************)
NoFork == [pc |-> 0, parent |-> 0, child |-> 0, eax |-> 0, mapped |-> FALSE]
NoOpen == [pc |-> "idle", path |-> "", new_fd |-> 0, f |-> NULL, ret |-> 0]
BlockIdx == 0 .. (MaxBlocks - 1)
DiskBlocks == 1 .. MaxDisk
NoBuf == [len |-> 0, val |-> 0]
NoPageOp == [op |-> "none", offset |-> 0, ret |-> 0, buf |-> NoBuf,
             sparse |-> FALSE]
EmptyFile == [ptrs |-> [b \in BlockIdx |-> 0], free |-> DiskBlocks,
              data |-> [b \in DiskBlocks |-> 0]]

InitStep ==
  /\ fk = NoFork
  /\ pt_user = [p \in Pids |-> FALSE]
  /\ tlb_user = FALSE
  /\ opens = [t \in Threads |-> NoOpen]
  /\ s5_blocks = EmptyFile
  /\ pageop = NoPageOp

(***************************************************************************)
(* The initial state: the init process alone, its working directory the    *)
(* root, no file open and nothing mapped.                                  *)
(***************************************************************************)
InitVm ==
  /\ InitStep
  /\ procs = {1}
  /\ p_files = [p \in Pids |-> [fd \in Fds |-> NULL]]
  /\ p_vmmap = [p \in Pids |-> <<>>]
  /\ files = [f \in FileIds |-> NoFile]
  /\ vn_refcount = [v \in Vnodes |-> IF v = VRoot THEN 1 ELSE 0]
  /\ mmobjs = [o \in ObjIds |->
                 IF o \in PoolObjs THEN NoObj ELSE [NoObj EXCEPT !.kind = "vnode"]]
  /\ kt_ctx = [p \in Pids |-> NoCtx]
  /\ runq = {}
  /\ expected = [p \in Pids |-> NoPages]
  /\ fault = FALSE
  /\ last = NoCall

Init == InitVm /\ InitS5

(***************************************************************************)
(* The system calls.  Each action is one call by a process p, its          *)
(* arguments drawn from the sets the specification passes in.  last holds  *)
(* the call and its result until the caller is back in user mode           *)
(* (ReturnToUser); the kernel is not preemptible, so the next call starts  *)
(* after that.  Nothing runs once the kernel has faulted.                  *)
(***************************************************************************)
Idle == ~fault /\ last.op = "none" /\ fk.pc = 0

ReturnToUser ==
  /\ UNCHANGED <<s5vars, stepvars>>
  /\ ~fault
  /\ fk.pc = 0
  /\ last.op # "none"
  /\ last' = NoCall
  /\ UNCHANGED <<procs, p_files, p_vmmap, files, vn_refcount, mmobjs, kt_ctx,
                 runq, expected, fault>>

DoOpen(paths, oflagset) ==
  /\ UNCHANGED <<s5vars, stepvars>>
  /\ Idle
  /\ \E p \in procs, filename \in paths, oflags \in oflagset :
       \E r \in {do_open(KState(p), filename, oflags)} :
          /\ p_files' = [p_files EXCEPT ![p] = r.ft]
          /\ files' = r.files
          /\ vn_refcount' = r.vn
          /\ last' = [NoCall EXCEPT !.op = "open", !.pid = p, !.path = filename,
                                    !.oflags = oflags, !.ret = r.ret]
  /\ UNCHANGED <<procs, p_vmmap, mmobjs, kt_ctx, runq, expected, fault>>

DoClose(fds) ==
  /\ UNCHANGED <<s5vars, stepvars>>
  /\ Idle
  /\ \E p \in procs, fd \in fds :
       \E r \in {do_close(KState(p), fd)} :
          /\ p_files' = [p_files EXCEPT ![p] = r.ft]
          /\ files' = r.files
          /\ vn_refcount' = r.vn
          /\ last' = [NoCall EXCEPT !.op = "close", !.pid = p, !.fd = fd,
                                    !.ret = r.ret]
  /\ UNCHANGED <<procs, p_vmmap, mmobjs, kt_ctx, runq, expected, fault>>

\* The model stops calling mmap where the call would outgrow the bounds: more
\* than maxareas areas, fewer than two free memory objects, or a file
\* reference count above MaxRefs.
DoMmap(addrs, lens, prots, flagset, fds, offs, maxareas) ==
  /\ UNCHANGED <<s5vars, stepvars>>
  /\ Idle
  /\ Cardinality(FreeObjs(mmobjs)) >= 2
  /\ \E p \in procs, addr \in addrs, len \in lens, prot \in prots,
        flags \in flagset, fd \in fds, off \in offs :
       \E r \in {do_mmap(KState(p), p_vmmap[p], mmobjs, addr, len, prot, flags,
                         fd, off)} :
       LET fresh == IF r.ret = 0
                    THEN ADDR_TO_PN(addr) .. (ADDR_TO_PN(addr) + len \div PAGE_SIZE - 1)
                    ELSE {}
           new == IF r.ret = 0 /\ addr = 0
                  THEN r.out .. (r.out + len \div PAGE_SIZE - 1) ELSE fresh
       IN /\ Len(r.map) <= maxareas
          /\ \A f \in FileIds : r.files[f].f_refcount <= MaxRefs
          /\ p_vmmap' = [p_vmmap EXCEPT ![p] = r.map]
          /\ mmobjs' = r.mmobjs
          /\ files' = r.files
          /\ vn_refcount' = r.vn
          /\ expected' = [expected EXCEPT ![p] = ExpectAfter(@, r.map, new)]
          /\ \E tlb \in IF r.undef
                        THEN {NoFlush} \cup
                             {mmap_flush(a, len) : a \in MapAreas(p_vmmap[p])}
                        ELSE {r.tlb} :
               last' = [NoCall EXCEPT !.op = "mmap", !.pid = p, !.addr = addr,
                                      !.len = len, !.prot = prot, !.flags = flags,
                                      !.fd = fd, !.off = off, !.ret = r.ret,
                                      !.out = r.out, !.tlb = tlb]
  /\ UNCHANGED <<procs, p_files, kt_ctx, runq, fault>>

DoMunmap(addrs, lens) ==
  /\ UNCHANGED <<s5vars, stepvars>>
  /\ Idle
  /\ \E p \in procs, addr \in addrs, len \in lens :
       \E r \in {do_munmap(p_vmmap[p], mmobjs, addr, len)} :
          /\ Len(r.map) <= MaxAreas
          /\ p_vmmap' = [p_vmmap EXCEPT ![p] = r.map]
          /\ mmobjs' = r.mmobjs
          /\ expected' = [expected EXCEPT ![p] = ExpectAfter(@, r.map, {})]
          /\ last' = [NoCall EXCEPT !.op = "munmap", !.pid = p, !.addr = addr,
                                    !.len = len, !.ret = r.ret, !.tlb = r.tlb]
  /\ UNCHANGED <<procs, p_files, files, vn_refcount, kt_ctx, runq, fault>>

\* do_fork by process p; eax is the r_eax of the register frame the system
\* call entry saved.  A fault in the fref loop (line 67) ends the call there.
DoFork(eaxs) ==
  /\ UNCHANGED <<s5vars, stepvars>>
  /\ Idle
  /\ procs # Pids
  /\ \E p \in procs, eax \in eaxs :
       \E child \in {NextPid}, cl \in {vmmap_clone(p_vmmap[p], mmobjs)},
          fr \in {fork_fref_loop(files, p_files[p], 0)} :
       \E sh \in {fork_shadows(p_vmmap[p], cl.map, cl.mmobjs)} :
          /\ procs' = procs \cup {child}
          /\ p_files' = [p_files EXCEPT ![child] = p_files[p]]
          /\ files' = fr.files
          /\ fault' = fr.fault
          /\ expected' = [expected EXCEPT ![child] = expected[p]]
          /\ IF fr.fault
             THEN /\ p_vmmap' = [p_vmmap EXCEPT ![child] = cl.map]
                  /\ mmobjs' = cl.mmobjs
                  /\ UNCHANGED <<vn_refcount, kt_ctx, runq>>
             ELSE /\ p_vmmap' = [p_vmmap EXCEPT ![p] = sh.pmap, ![child] = sh.cmap]
                  /\ mmobjs' = sh.mmobjs
                  /\ vn_refcount' = vref(vn_refcount, VRoot)
                  /\ kt_ctx' = [kt_ctx EXCEPT ![child] =
                        [c_eip |-> "userland_entry", c_pdptr |-> child,
                         regs |-> fork_setup_stack([r_eax |-> eax])]]
                  /\ runq' = runq \cup {child}
          /\ last' = [NoCall EXCEPT !.op = "fork", !.pid = p, !.child = child,
                                    !.ret = fork_ret(child)]

\* user-mode accesses, resolved by the fault path
UserWrite(vals) ==
  /\ UNCHANGED <<s5vars, stepvars>>
  /\ Idle
  /\ \E p \in procs : \E vfn \in MapPages(p_vmmap[p]), val \in vals :
       /\ HasBit(p_vmmap[p][vmmap_lookup(p_vmmap[p], vfn)].vma_prot, PROT_WRITE)
       /\ mmobjs' = WritePage(p_vmmap[p], mmobjs, vfn, val)
       /\ expected' = [expected EXCEPT ![p] =
             IF vfn \in DOMAIN @ THEN [@ EXCEPT ![vfn] = val] ELSE @]
       /\ last' = [NoCall EXCEPT !.op = "write", !.pid = p, !.vpn = vfn,
                                 !.val = val]
  /\ UNCHANGED <<procs, p_files, p_vmmap, files, vn_refcount, kt_ctx, runq, fault>>

UserRead ==
  /\ UNCHANGED <<s5vars, stepvars>>
  /\ Idle
  /\ \E p \in procs : \E vfn \in MapPages(p_vmmap[p]) :
       last' = [NoCall EXCEPT !.op = "read", !.pid = p, !.vpn = vfn,
                              !.val = ReadPage(p_vmmap[p], mmobjs, vfn)]
  /\ UNCHANGED <<procs, p_files, p_vmmap, files, vn_refcount, mmobjs, kt_ctx,
                 runq, expected, fault>>

(***************************************************************************)
(* The specifications.  Spec is the kernel as its processes drive it:      *)
(* open, close, mmap, fork and user accesses.  SpecOpen and SpecMmap run   *)
(* the file and the mapping system calls over all their argument shapes.   *)
(***************************************************************************)
AllOflags == {acc + app : acc \in 0 .. 3, app \in {0, O_APPEND}}

Next ==
  \/ DoOpen({"/file"}, {O_RDONLY})
  \/ DoMmap({0}, {PAGE_SIZE}, {PROT_READ + PROT_WRITE},
            {MAP_PRIVATE + MAP_ANON, MAP_SHARED + MAP_ANON}, {-1}, {0}, MaxAreas)
  \/ DoFork({0, 2})
  \/ UserWrite({1, 2})
  \/ UserRead
  \/ ReturnToUser

Spec == Init /\ [][Next]_vars

NextOpen ==
  \/ DoOpen(Paths, AllOflags)
  \/ DoClose(Fds \cup {NFILES})
  \/ ReturnToUser

SpecOpen == Init /\ [][NextOpen]_vars

MmapAddrs == {0, USER_MEM_LOW, USER_MEM_LOW + 1, USER_MEM_LOW - PAGE_SIZE,
              USER_MEM_HIGH - PAGE_SIZE, USER_MEM_HIGH}
\* the last length is one page more than user memory holds
MmapLens == {0, PAGE_SIZE, 2 * PAGE_SIZE, PAGE_SIZE + 1,
             USER_MEM_HIGH - USER_MEM_LOW + PAGE_SIZE}
MmapFlags == {0, MAP_PRIVATE, MAP_SHARED, MAP_PRIVATE + MAP_SHARED,
              MAP_PRIVATE + MAP_ANON, MAP_SHARED + MAP_ANON}

NextMmap ==
  \/ DoOpen({"/file"}, {O_RDONLY, O_WRONLY, O_RDWR + O_APPEND})
  \/ DoMmap(MmapAddrs, MmapLens, {PROT_READ, PROT_READ + PROT_WRITE},
            MmapFlags, {0}, {0, 1}, MaxMapped)
  \/ DoMunmap(MmapAddrs \ {0}, {PAGE_SIZE, PAGE_SIZE + 1})
  \/ ReturnToUser

SpecMmap == Init /\ [][NextMmap]_vars

\* do_mmap's argument checks alone: every combination of good and bad addr,
\* len, off and sharing flags, with the descriptor open or not and with areas
\* mapped or not
MmapArgFlags == {0, MAP_PRIVATE + MAP_SHARED, MAP_PRIVATE, MAP_SHARED + MAP_ANON}

NextMmapArgs ==
  \/ DoOpen({"/file"}, {O_RDONLY})
  \/ DoMmap(MmapAddrs, MmapLens, {PROT_READ, PROT_READ + PROT_WRITE}, MmapArgFlags,
           {0}, {0, 1}, MaxMapped)
  \/ ReturnToUser

SpecMmapArgs == Init /\ [][NextMmapArgs]_vars

\* mmap and munmap of a few anonymous pages at the bottom and the top of user
\* memory
MunmapAddrs == {USER_MEM_LOW, USER_MEM_LOW + PAGE_SIZE, USER_MEM_HIGH - PAGE_SIZE,
                USER_MEM_LOW - PAGE_SIZE, USER_MEM_HIGH, USER_MEM_LOW + 1}
MunmapLens == {0, PAGE_SIZE, 2 * PAGE_SIZE, PAGE_SIZE + 1}

NextMunmap ==
  \/ DoMmap({0, USER_MEM_LOW, USER_MEM_LOW + PAGE_SIZE}, {PAGE_SIZE, 2 * PAGE_SIZE},
            {PROT_READ + PROT_WRITE}, {MAP_PRIVATE + MAP_ANON, MAP_SHARED + MAP_ANON},
            {-1}, {0}, MaxAreas)
  \/ DoMunmap(MunmapAddrs, MunmapLens)
  \/ ReturnToUser

SpecMunmap == Init /\ [][NextMunmap]_vars


\* vnode operations of the kernel threads on the mounted file system
S5Fails == 0 .. 4
S5Ios == {-ENOSPC, 0, 1}
S5Lens == {1, S5_NAME_LEN + 1}

\* threads in link, rmdir and lookup, each subroutine succeeding
NextS5 ==
  \/ S5Call(Threads, {"link", "rmdir", "lookup"}, {0}, {0}, {1})
  \/ S5Block(Threads)
  \/ S5Lock(Threads)
  \/ S5Body(Threads)
  \/ S5RmdirFind(Threads)
  \/ S5RmdirReaddir(Threads)
  \/ S5Return(Threads)

SpecS5 == Init /\ [][NextS5]_vars

\* one thread in any vnode operation, any subroutine failing
NextS5Ops ==
  \/ S5Call({1}, S5Ops, S5Fails, S5Ios, S5Lens)
  \/ S5Block({1})
  \/ S5Lock({1})
  \/ S5Body({1})
  \/ S5PageMiss({1})
  \/ S5RmdirFind({1})
  \/ S5RmdirReaddir({1})
  \/ S5Return({1})

SpecS5Ops == Init /\ [][NextS5Ops]_vars

\* one thread making directories, any step of s5fs_mkdir failing
NextMkdir ==
  \/ S5Call({1}, {"mkdir", "lookup", "unlink"}, S5Fails, {0}, S5Lens)
  \/ S5Lock({1})
  \/ S5Body({1})
  \/ S5Return({1})

SpecMkdir == Init /\ [][NextMkdir]_vars

\* any disk image, not mounted
InitMount ==
  /\ InitVm
  /\ s5_super \in [super : SuperImages, mounted : {FALSE}, fs_root : {0},
                   op : {"none"}, dev : {""}, nomem : {FALSE}, ret : {0}]
  /\ s5_inodes \in {DiskInodes(delta) : delta \in {0, 1}}
  /\ s5_vnodes = [i \in Inos |-> 0]
  /\ vn_mutex = [i \in Inos |-> 0]
  /\ kthreads = [t \in Threads |-> NoThread]
  /\ panicked = FALSE
  /\ curthr = 0
  /\ ncalls = 0

NextMount ==
  \/ S5Mount(Devices, BOOLEAN)
  \/ S5Umount
  \/ CorruptSuper(SuperImages)

SpecMount == InitMount /\ [][NextMount]_vars

\* one thread making, filling and removing directories, which is never
\* stopped for ever while it can run
NextRmdir ==
  \/ S5Call({1}, {"create", "mkdir", "rmdir", "lookup"}, {0}, {0}, {1})
  \/ S5Lock({1})
  \/ S5Body({1})
  \/ S5RmdirFind({1})
  \/ S5RmdirReaddir({1})
  \/ S5Return({1})

SpecRmdir == Init /\ [][NextRmdir]_vars /\ WF_vars(NextRmdir)

\* a valid empty root: its own ".." names it, and the link count in core is
\* one more
EmptyRoot ==
  [i \in Inos |->
     IF i = 0 THEN [type |-> "dir", linkcount |-> 2,
                    entries |-> <<Dirent(".", 0), Dirent("..", 0)>>]
     ELSE NoInode]

InitRefs ==
  /\ InitVm
  /\ s5_super = [super |-> GoodSuper, mounted |-> TRUE, fs_root |-> 0,
                 op |-> "none", dev |-> "", nomem |-> FALSE, ret |-> 0]
  /\ s5_inodes = EmptyRoot
  /\ s5_vnodes = [i \in Inos |-> IF i = 0 THEN 1 ELSE 0]
  /\ vn_mutex = [i \in Inos |-> 0]
  /\ kthreads = [t \in Threads |-> NoThread]
  /\ panicked = FALSE
  /\ curthr = 0
  /\ ncalls = 0

\* one thread building a tree with mkdir and create, every subroutine
\* succeeding (a name that is too long is refused before anything is
\* touched), and the unmount of the tree
NextRefs ==
  \/ S5Call({1}, {"create", "mkdir"}, {0}, {0}, S5Lens)
  \/ S5Lock({1})
  \/ S5Body({1})
  \/ S5Return({1})
  \/ S5Umount

SpecRefs == InitRefs /\ [][NextRefs]_vars

(***************************************************************************)
(* do_fork, lines 92-111, statement by statement.  ForkEnter is the call   *)
(* up to line 90; ForkStep runs the statement fk.pc of fork_tail.  The     *)
(* kernel is not preemptible and none of these statements blocks, so       *)
(* nothing else runs until the call has returned.                          *)
(***************************************************************************)
\* do_fork handing the child to the scheduler before its context is set up
fork_tail_runnable_first ==
  <<"sched_make_runnable", "pt_unmap_range", "tlb_flush_all", "kthread_clone",
    "c_eip", "c_esp", "c_pdptr", "c_kstack", "return">>

\* lines 93 (pt_unmap_range), 94 (tlb_flush_all), 97 (kthread_clone),
\* 102-104 (c_eip, c_esp, c_pdptr), 106-107 (c_kstack, c_kstacksz),
\* 109 (sched_make_runnable), 111 (return 0)
fork_tail ==
  <<"pt_unmap_range", "tlb_flush_all", "kthread_clone", "c_eip", "c_esp",
    "c_pdptr", "c_kstack", "sched_make_runnable", "return">>

\* a user-mode access of p that goes through the fault path: the page
\* directory of p gets the entry and the TLB the translation
UserTouch ==
  /\ Idle
  /\ \E p \in procs :
       /\ MapPages(p_vmmap[p]) # {}
       /\ pt_user' = [pt_user EXCEPT ![p] = TRUE]
       /\ tlb_user' = TRUE
  /\ UNCHANGED <<vmvars, s5vars, fk, opens, s5_blocks, pageop>>

ForkEnter(eaxs) ==
  /\ Idle
  /\ procs # Pids
  /\ \E p \in procs, eax \in eaxs :
       \E child \in {NextPid}, cl \in {vmmap_clone(p_vmmap[p], mmobjs)},
          fr \in {fork_fref_loop(files, p_files[p], 0)} :
       \E sh \in {fork_shadows(p_vmmap[p], cl.map, cl.mmobjs)} :
          /\ procs' = procs \cup {child}
          /\ p_files' = [p_files EXCEPT ![child] = p_files[p]]
          /\ files' = fr.files
          /\ fault' = fr.fault
          /\ expected' = [expected EXCEPT ![child] = expected[p]]
          /\ IF fr.fault
             THEN /\ p_vmmap' = [p_vmmap EXCEPT ![child] = cl.map]
                  /\ mmobjs' = cl.mmobjs
                  /\ UNCHANGED <<vn_refcount, fk>>
             ELSE /\ p_vmmap' = [p_vmmap EXCEPT ![p] = sh.pmap, ![child] = sh.cmap]
                  /\ mmobjs' = sh.mmobjs
                  /\ vn_refcount' = vref(vn_refcount, VRoot)
                  /\ fk' = [pc |-> 1, parent |-> p, child |-> child, eax |-> eax,
                            mapped |-> pt_user[p]]
  /\ UNCHANGED <<kt_ctx, runq, last, s5vars, pt_user, tlb_user, opens,
                 s5_blocks, pageop>>

ForkStep ==
  /\ ~fault
  /\ fk.pc \in 1 .. Len(fork_tail)
  /\ LET st == fork_tail[fk.pc]
         p == fk.parent
         c == fk.child
     IN /\ pt_user' = IF st = "pt_unmap_range" THEN [pt_user EXCEPT ![p] = FALSE]
                      ELSE pt_user
        /\ tlb_user' = IF st = "tlb_flush_all" THEN FALSE ELSE tlb_user
        /\ kt_ctx' =
             CASE st = "kthread_clone" -> [kt_ctx EXCEPT ![c] = NoCtx]
               [] st = "c_eip" -> [kt_ctx EXCEPT ![c].c_eip = "userland_entry"]
               [] st = "c_esp" ->
                    [kt_ctx EXCEPT ![c].regs = fork_setup_stack([r_eax |-> fk.eax])]
               [] st = "c_pdptr" -> [kt_ctx EXCEPT ![c].c_pdptr = c]
               [] OTHER -> kt_ctx
        /\ runq' = IF st = "sched_make_runnable" THEN runq \cup {c} ELSE runq
        /\ last' = IF st = "return"
                   THEN [NoCall EXCEPT !.op = "fork", !.pid = p, !.child = c,
                                       !.ret = fork_ret(c)]
                   ELSE last
        /\ fk' = IF st = "return" THEN NoFork ELSE [fk EXCEPT !.pc = @ + 1]
  /\ UNCHANGED <<procs, p_files, p_vmmap, files, vn_refcount, mmobjs, expected,
                 fault, s5vars, opens, s5_blocks, pageop>>

NextFork ==
  \/ DoOpen({"/file"}, {O_RDONLY})
  \/ DoMmap({0}, {PAGE_SIZE}, {PROT_READ + PROT_WRITE}, {MAP_PRIVATE + MAP_ANON},
            {-1}, {0}, MaxMapped)
  \/ UserTouch
  \/ ForkEnter({0, 2})
  \/ ForkStep
  \/ ReturnToUser

SpecFork == Init /\ [][NextFork]_vars

(***************************************************************************)
(* do_open by the threads of the init process.  open_namev may block, so   *)
(* a call runs from its entry to open_namev (OpenEnter), and from the      *)
(* return of open_namev to its own return (OpenResume); other threads run  *)
(* in between.  OpenClose is a do_close of a descriptor that an earlier    *)
(* do_open returned.                                                       *)
(***************************************************************************)
\* do_open_reserve without line 79: the slot is not filled before open_namev
do_open_reserve_no_store(k, oflags) ==
  LET new_fd == get_empty_fd(k.ft)
      f == fget_fresh(k.files)
      out(kk, d) == [k |-> kk, new_fd |-> new_fd, f |-> f, done |-> d]
  IN IF new_fd = -EMFILE THEN out([k EXCEPT !.ret = -EMFILE], TRUE)
     ELSE IF f = NULL THEN out([k EXCEPT !.ret = -ENOMEM], TRUE)
     ELSE LET k1 == [k EXCEPT !.files = fref(@, f)]
              mode == open_mode(oflags)
          IN IF mode < 0
             THEN out([do_close(k1, new_fd) EXCEPT !.ret = -EINVAL], TRUE)
             ELSE out([k1 EXCEPT !.files[f].f_mode = mode], FALSE)

\* do_open lines 74-96: get_empty_fd, fget, the slot filled, the mode set;
\* done when the call returns before open_namev
do_open_reserve(k, oflags) ==
  LET new_fd == get_empty_fd(k.ft)
      f == fget_fresh(k.files)
      out(kk, d) == [k |-> kk, new_fd |-> new_fd, f |-> f, done |-> d]
  IN IF new_fd = -EMFILE THEN out([k EXCEPT !.ret = -EMFILE], TRUE)
     ELSE IF f = NULL THEN out([k EXCEPT !.ret = -ENOMEM], TRUE)
     ELSE LET k1 == [k EXCEPT !.files = fref(@, f), !.ft[new_fd] = f]
              mode == open_mode(oflags)
          IN IF mode < 0
             THEN out([do_close(k1, new_fd) EXCEPT !.ret = -EINVAL], TRUE)
             ELSE out([k1 EXCEPT !.files[f].f_mode = mode], FALSE)

OpenEnter(ts, paths, oflagset) ==
  /\ Idle
  /\ \E t \in ts, filename \in paths, oflags \in oflagset :
       /\ opens[t].pc = "idle"
       /\ \E r \in {do_open_reserve(KState(1), oflags)} :
            /\ p_files' = [p_files EXCEPT ![1] = r.k.ft]
            /\ files' = r.k.files
            /\ vn_refcount' = r.k.vn
            /\ opens' = [opens EXCEPT ![t] =
                  [pc |-> IF r.done THEN "done" ELSE "namev", path |-> filename,
                   new_fd |-> r.new_fd, f |-> r.f, ret |-> r.k.ret]]
  /\ UNCHANGED <<procs, p_vmmap, mmobjs, kt_ctx, runq, expected, fault, last,
                 s5vars, fk, pt_user, tlb_user, s5_blocks, pageop>>

\* open_namev has returned: lines 97-113
OpenResume ==
  /\ Idle
  /\ \E t \in Threads :
       /\ opens[t].pc = "namev"
       /\ \E r \in {do_open_resolve(KState(1), opens[t].new_fd, opens[t].f,
                                    opens[t].path)} :
            /\ p_files' = [p_files EXCEPT ![1] = r.ft]
            /\ files' = r.files
            /\ vn_refcount' = r.vn
            /\ opens' = [opens EXCEPT ![t].pc = "done", ![t].ret = r.ret]
  /\ UNCHANGED <<procs, p_vmmap, mmobjs, kt_ctx, runq, expected, fault, last,
                 s5vars, fk, pt_user, tlb_user, s5_blocks, pageop>>

\* the thread is back in user mode with the value do_open returned
OpenReturn ==
  /\ \E t \in Threads :
       /\ opens[t].pc = "done"
       /\ opens' = [opens EXCEPT ![t] = NoOpen]
  /\ UNCHANGED <<vmvars, s5vars, fk, pt_user, tlb_user, s5_blocks, pageop>>

\* the files that a do_open still in the kernel has put in the table
Reserved == {opens[t].f : t \in {u \in Threads : opens[u].pc # "idle"}}

OpenClose(fds) ==
  /\ Idle
  /\ \E fd \in fds :
       /\ p_files[1][fd] # NULL
       /\ p_files[1][fd] \notin Reserved
       /\ \E r \in {do_close(KState(1), fd)} :
            /\ p_files' = [p_files EXCEPT ![1] = r.ft]
            /\ files' = r.files
            /\ vn_refcount' = r.vn
  /\ UNCHANGED <<procs, p_vmmap, mmobjs, kt_ctx, runq, expected, fault, last,
                 s5vars, stepvars>>

NextOpens ==
  \/ OpenEnter({1, 2}, Paths, {O_RDONLY, O_WRONLY, 3})
  \/ OpenResume
  \/ OpenReturn
  \/ OpenClose(Fds)

SpecOpens == Init /\ [][NextOpens]_vars

(***************************************************************************)
(* The page operations of the regular file on its blocks.  d is a record   *)
(* [ptrs, free, data]: the block pointer of each block slot of the inode   *)
(* (0: sparse), the free list of the disk, and the contents of the disk    *)
(* blocks.  A page buffer is [len, val]: len bytes holding val.            *)
(***************************************************************************)
\* a block of the disk is one page
S5_BLOCK_SIZE == PAGE_SIZE
S5_DATA_BLOCK(offset) == offset \div S5_BLOCK_SIZE

\* s5_seek_to_block(vnode, offset, alloc): the block number of the slot, 0 for
\* a sparse slot when alloc = 0; with alloc = 1 a sparse slot gets the first
\* block of the free list, -ENOSPC when the list is empty
s5_seek_to_block(d, offset, alloc) ==
  LET slot == S5_DATA_BLOCK(offset)
      new == CHOOSE n \in d.free : \A o \in d.free : n <= o
  IN IF d.ptrs[slot] # 0 THEN [ret |-> d.ptrs[slot], d |-> d]
     ELSE IF alloc = 0 THEN [ret |-> 0, d |-> d]
     ELSE IF d.free = {} THEN [ret |-> -ENOSPC, d |-> d]
     ELSE [ret |-> new,
           d |-> [d EXCEPT !.ptrs[slot] = new, !.free = @ \ {new}]]

\* s5fs_fillpage asking s5_seek_to_block to allocate
fillpage_blocks_alloc(d, offset, io) ==
  LET s == s5_seek_to_block(d, offset, 1)
      block_no == s.ret
  IN IF block_no < 0 THEN [ret |-> block_no, d |-> s.d, buf |-> NoBuf]
     ELSE IF block_no # 0
     THEN [ret |-> io, d |-> s.d,
           buf |-> IF io = 0 THEN [len |-> S5_BLOCK_SIZE, val |-> s.d.data[block_no]]
                   ELSE NoBuf]
     ELSE [ret |-> 0, d |-> s.d, buf |-> [len |-> S5_BLOCK_SIZE, val |-> 0]]

\* s5fs_fillpage, lines 638-650; io is what read_block returns
fillpage_blocks(d, offset, io) ==
  LET s == s5_seek_to_block(d, offset, 0)
      block_no == s.ret
  IN IF block_no < 0 THEN [ret |-> block_no, d |-> s.d, buf |-> NoBuf]
     ELSE IF block_no # 0
     THEN [ret |-> io, d |-> s.d,
           buf |-> IF io = 0 THEN [len |-> S5_BLOCK_SIZE, val |-> s.d.data[block_no]]
                   ELSE NoBuf]
     ELSE [ret |-> 0, d |-> s.d, buf |-> [len |-> S5_BLOCK_SIZE, val |-> 0]]

\* s5fs_dirtypage, lines 671-679
dirtypage_blocks(d, offset) ==
  LET s == s5_seek_to_block(d, offset, 0)
      s1 == s5_seek_to_block(s.d, offset, 1)
  IN IF s.ret <= 0 THEN [ret |-> s.ret, d |-> s.d]
     ELSE [ret |-> s1.ret, d |-> s1.d]

\* s5fs_cleanpage, lines 690-698; val is what the page buffer holds and io
\* what write_block returns
cleanpage_blocks(d, offset, val, io) ==
  LET s == s5_seek_to_block(d, offset, 1)
      block_no == s.ret
  IN IF block_no <= 0 THEN [ret |-> block_no, d |-> s.d]
     ELSE [ret |-> io,
           d |-> IF io = 0 THEN [s.d EXCEPT !.data[block_no] = val] ELSE s.d]

\* the page-aligned offsets of the file
Offsets == {b * S5_BLOCK_SIZE : b \in BlockIdx}

\* A page operation on vnode 2 runs from its kmutex_lock to its return when
\* the mutex is free.
PageIdle == pageop.op = "none" /\ vn_mutex[2] = 0 /\ ~panicked

PageFill(offsets, ios) ==
  /\ PageIdle
  /\ \E offset \in offsets, io \in ios :
       \E r \in {fillpage_blocks(s5_blocks, offset, io)} :
          /\ s5_blocks' = r.d
          /\ pageop' = [op |-> "fillpage", offset |-> offset, ret |-> r.ret,
                        buf |-> r.buf,
                        sparse |-> s5_blocks.ptrs[S5_DATA_BLOCK(offset)] = 0]
  /\ UNCHANGED <<vmvars, s5vars, fk, pt_user, tlb_user, opens>>

PageDirty(offsets) ==
  /\ PageIdle
  /\ \E offset \in offsets :
       \E r \in {dirtypage_blocks(s5_blocks, offset)} :
          /\ s5_blocks' = r.d
          /\ pageop' = [op |-> "dirtypage", offset |-> offset, ret |-> r.ret,
                        buf |-> NoBuf,
                        sparse |-> s5_blocks.ptrs[S5_DATA_BLOCK(offset)] = 0]
  /\ UNCHANGED <<vmvars, s5vars, fk, pt_user, tlb_user, opens>>

PageClean(offsets, vals, ios) ==
  /\ PageIdle
  /\ \E offset \in offsets, val \in vals, io \in ios :
       \E r \in {cleanpage_blocks(s5_blocks, offset, val, io)} :
          /\ s5_blocks' = r.d
          /\ pageop' = [op |-> "cleanpage", offset |-> offset, ret |-> r.ret,
                        buf |-> [len |-> S5_BLOCK_SIZE, val |-> val],
                        sparse |-> s5_blocks.ptrs[S5_DATA_BLOCK(offset)] = 0]
  /\ UNCHANGED <<vmvars, s5vars, fk, pt_user, tlb_user, opens>>

PageReturn ==
  /\ pageop.op # "none"
  /\ pageop' = NoPageOp
  /\ UNCHANGED <<vmvars, s5vars, fk, pt_user, tlb_user, opens, s5_blocks>>

\* another file of the disk takes the first block of the free list
AllocBlock ==
  /\ PageIdle
  /\ s5_blocks.free # {}
  /\ s5_blocks' = [s5_blocks EXCEPT !.free =
        @ \ {CHOOSE n \in @ : \A o \in @ : n <= o}]
  /\ UNCHANGED <<vmvars, s5vars, fk, pt_user, tlb_user, opens, pageop>>

NextPages ==
  \/ PageFill(Offsets, {-EFAULT, 0})
  \/ PageDirty(Offsets)
  \/ PageClean(Offsets, {1, 2}, {-EFAULT, 0})
  \/ PageReturn
  \/ AllocBlock

SpecPages == Init /\ [][NextPages]_vars

(***************************************************************************)
(* Properties of do_fork, checked under Spec.                              *)
(***************************************************************************)

\* C1: COW isolation across do_fork.  A read of a private anonymous page by a
\* process returns what that process itself last stored there (what its parent
\* had stored at the time of the fork, when it has not written since; zeros
\* when nobody has): a write by the other side of a fork is never observed.
C1_CowIsolation ==
  (last.op = "read" /\ last.vpn \in DOMAIN expected[last.pid])
    => last.val = expected[last.pid][last.vpn]

\* C2: after do_fork every private area of the parent and the child's area in
\* the same place reference two distinct, newly created shadow objects whose
\* shadowed object is the one the parent's area referenced before the call;
\* shared areas of both still reference the original object.
C2_ForkShadows ==
  [][(last'.op = "fork" /\ ~fault') =>
       LET p == last'.pid
           c == last'.child
       IN /\ Len(p_vmmap'[c]) = Len(p_vmmap[p])
          /\ Len(p_vmmap'[p]) = Len(p_vmmap[p])
          /\ \A i \in 1 .. Len(p_vmmap[p]) :
               LET before == p_vmmap[p][i].vma_obj
                   po == p_vmmap'[p][i].vma_obj
                   co == p_vmmap'[c][i].vma_obj
               IN /\ p_vmmap'[c][i].vma_start = p_vmmap[p][i].vma_start
                  /\ p_vmmap'[c][i].vma_end = p_vmmap[p][i].vma_end
                  /\ IF HasBit(p_vmmap[p][i].vma_flags, MAP_PRIVATE)
                     THEN /\ po # co
                          /\ mmobjs[po].kind = "free" /\ mmobjs[co].kind = "free"
                          /\ mmobjs'[po].kind = "shadow"
                          /\ mmobjs'[co].kind = "shadow"
                          /\ mmobjs'[po].shadowed = before
                          /\ mmobjs'[co].shadowed = before
                     ELSE po = before /\ co = before]_vars

\* C3: do_fork returns the pid of the new child, different from the caller's,
\* to the parent, and the register frame the child starts from holds 0 as the
\* return value.
C3_ForkReturns ==
  (last.op = "fork" /\ ~fault) =>
     /\ last.ret = last.child
     /\ last.child # last.pid
     /\ kt_ctx[last.child].regs.r_eax = 0

\* C4: after do_fork every slot of the child's file table holds what the same
\* slot of the parent holds, each file has gained one reference per child slot
\* referring to it, and empty slots stay empty, change no count and cause no
\* fault.
C4_ForkFiles ==
  [][last'.op = "fork" =>
       LET p == last'.pid
           c == last'.child
       IN /\ ~fault'
          /\ \A i \in Fds : p_files'[c][i] = p_files[p][i]
          /\ \A f \in FileIds :
               files'[f].f_refcount =
                 files[f].f_refcount + Cardinality({i \in Fds : p_files'[c][i] = f})]_vars

(***************************************************************************)
(* Properties of do_open, checked under SpecOpen.                          *)
(***************************************************************************)

\* C5: a do_open that returns an error leaves the descriptor table as it was:
\* the slot it had filled is empty again, the file object it had taken is
\* released, and every vnode reference count has its value of before the call.
C5_FailedOpenUndone ==
  [][(last'.op = "open" /\ last'.ret < 0) =>
       /\ p_files' = p_files
       /\ files' = files
       /\ vn_refcount' = vn_refcount]_vars

\* a do_open of a directory for writing came back with EISDIR, after the slot
\* was filled and the vnode referenced
C5_Witness ==
  /\ last.op = "open" /\ last.ret = -EISDIR
  /\ last.path = "/" /\ last.oflags % 4 # O_RDONLY
  /\ p_files[last.pid][0] # NULL

\* the mode the claim gives for oflags with a valid access mode
ClaimedMode(oflags) ==
  (CASE oflags % 4 = 0 -> 1
     [] oflags % 4 = 1 -> 2
     [] oflags % 4 = 2 -> 3
     [] OTHER -> 0)
  + (IF (oflags \div 1024) % 2 = 1 THEN 4 ELSE 0)

OpenedMode == files[p_files[last.pid][last.ret]].f_mode

\* C6 as stated: on success the mode is READ, WRITE or READ|WRITE by the access
\* mode of oflags, with APPEND exactly when O_APPEND is set; and whenever the
\* access mode is none of the three, do_open returns EINVAL.
C6_OpenModeAsStated ==
  last.op = "open" =>
     /\ (last.ret >= 0 => OpenedMode = ClaimedMode(last.oflags))
     /\ (last.oflags % 4 = 3 => last.ret = -EINVAL)

\* C6, amended: the same, but an invalid access mode is answered with EINVAL
\* only once a slot and a file object were obtained; with no slot free the
\* call has already returned EMFILE (and with no file object ENOMEM), and in
\* every case it fails.
C6_OpenMode ==
  [][last'.op = "open" =>
       /\ (last'.ret >= 0 =>
             files'[p_files'[last'.pid][last'.ret]].f_mode = ClaimedMode(last'.oflags))
       /\ (last'.oflags % 4 = 3 =>
             last'.ret = IF EmptyFds(p_files[last'.pid]) = {} THEN -EMFILE
                         ELSE IF FreeFiles(files) = {} THEN -ENOMEM
                         ELSE -EINVAL)]_vars

\* an invalid access mode was refused with EINVAL while another file is open
C6_Witness ==
  /\ last.op = "open" /\ last.oflags % 4 = 3 /\ last.ret = -EINVAL
  /\ \E fd \in Fds : p_files[last.pid][fd] # NULL
                       /\ files[p_files[last.pid][fd]].f_mode = FMODE_READ + FMODE_WRITE + FMODE_APPEND

(***************************************************************************)
(* Properties of do_mmap, checked under SpecMmap and SpecMmapArgs.         *)
(***************************************************************************)
CallAligned(c) ==
  c.addr % PAGE_SIZE = 0 /\ c.len % PAGE_SIZE = 0 /\ c.off % PAGE_SIZE = 0
CallOneSharing(c) == HasBit(c.flags, MAP_PRIVATE) # HasBit(c.flags, MAP_SHARED)
CallInUser(c) == USER_MEM_LOW <= c.addr /\ c.addr + c.len <= USER_MEM_HIGH

\* C7: do_mmap returns EINVAL and leaves the caller's map and every file
\* reference count unchanged whenever addr, len or off is not page aligned,
\* len is zero, or flags hold both or neither of MAP_PRIVATE and MAP_SHARED.
C7_MmapEinval ==
  [][(last'.op = "mmap"
        /\ (~CallAligned(last') \/ last'.len = 0 \/ ~CallOneSharing(last'))) =>
       /\ last'.ret = -EINVAL
       /\ p_vmmap' = p_vmmap
       /\ mmobjs' = mmobjs
       /\ files' = files]_vars

\* a well-aligned call with neither sharing flag was refused while the caller
\* has an area mapped and a file open in the descriptor it named
C7_Witness ==
  /\ last.op = "mmap" /\ last.ret = -EINVAL
  /\ CallAligned(last) /\ last.len # 0 /\ last.addr = 0
  /\ ~HasBit(last.flags, MAP_PRIVATE) /\ ~HasBit(last.flags, MAP_SHARED)
  /\ p_vmmap[last.pid] # <<>>
  /\ p_files[last.pid][last.fd] # NULL

\* C8: when addr # 0 and [addr, addr+len) is not inside [USER_LOW, USER_HIGH),
\* do_mmap returns EINVAL, installs no mapping and evicts no area.
C8_MmapRange ==
  [][(last'.op = "mmap" /\ last'.addr # 0 /\ ~CallInUser(last')) =>
       /\ last'.ret = -EINVAL
       /\ p_vmmap' = p_vmmap
       /\ mmobjs' = mmobjs]_vars

\* C9: for a mapping of a file (no MAP_ANON) whose other arguments are valid,
\* do_mmap fails with EBADF when fd names no open file, and with EACCES when
\* the file is not open for reading, when MAP_SHARED with PROT_WRITE is asked
\* of a file not open for writing, or when PROT_WRITE is asked of a file whose
\* mode includes APPEND; no mapping is installed in these cases.
C9_MmapFileChecks ==
  [][(last'.op = "mmap" /\ CallAligned(last') /\ last'.len # 0
        /\ CallOneSharing(last') /\ (last'.addr = 0 \/ CallInUser(last'))
        /\ ~HasBit(last'.flags, MAP_ANON)) =>
       LET f == IF last'.fd \in Fds THEN p_files[last'.pid][last'.fd] ELSE NULL
           mode == files[f].f_mode
       IN /\ f = NULL => (last'.ret = -EBADF /\ p_vmmap' = p_vmmap)
          /\ (f # NULL
                /\ (\/ ~HasBit(mode, FMODE_READ)
                    \/ HasBit(last'.flags, MAP_SHARED) /\ HasBit(last'.prot, PROT_WRITE)
                         /\ ~HasBit(mode, FMODE_WRITE)
                    \/ HasBit(last'.prot, PROT_WRITE) /\ HasBit(mode, FMODE_APPEND)))
               => (last'.ret = -EACCES /\ p_vmmap' = p_vmmap)]_vars

\* C10: on success *ret is the start address in bytes of the installed
\* mapping: addr itself when addr # 0, and otherwise a page-aligned address
\* with [*ret, *ret+len) inside user memory whose pages are those of an area
\* of the map.
C10_MmapStart ==
  (last.op = "mmap" /\ last.ret = 0) =>
     /\ last.addr # 0 => last.out = last.addr
     /\ last.addr = 0 =>
          /\ last.out % PAGE_SIZE = 0
          /\ USER_MEM_LOW <= last.out /\ last.out + last.len <= USER_MEM_HIGH
          /\ \E a \in MapAreas(p_vmmap[last.pid]) :
               /\ a.vma_start * PAGE_SIZE = last.out
               /\ a.vma_end * PAGE_SIZE = last.out + last.len

(***************************************************************************)
(* Properties of do_munmap, checked under SpecMunmap.                      *)
(***************************************************************************)
\* the pages of the byte range [addr, addr+len) of a call
CallPages(c) == ADDR_TO_PN(c.addr) .. (ADDR_TO_PN(c.addr + c.len) - 1)

\* what the map says of page vfn: the object and the offset in it, or nothing
PageMapping(map, vfn) ==
  IF vmmap_lookup(map, vfn) = 0 THEN <<>>
  ELSE LET a == map[vmmap_lookup(map, vfn)]
       IN <<a.vma_obj, a.vma_off + (vfn - a.vma_start), a.vma_prot, a.vma_flags>>

\* C11: after do_munmap(addr, len) returns 0 no page of [addr, addr+len) is in
\* any area of the caller's map, and every page mapped outside the range is
\* still mapped with the same object and offset.
C11_MunmapUnmaps ==
  [][(last'.op = "munmap" /\ last'.ret = 0) =>
       LET p == last'.pid
       IN /\ \A vfn \in CallPages(last') : vmmap_lookup(p_vmmap'[p], vfn) = 0
          /\ \A vfn \in MapPages(p_vmmap[p]) \ CallPages(last') :
               PageMapping(p_vmmap'[p], vfn) = PageMapping(p_vmmap[p], vfn)]_vars

\* C12: do_munmap of a valid page-aligned range inside user memory in which
\* nothing is mapped (a second do_munmap of the same range, for one) returns
\* 0 and leaves the map as it was.
C12_MunmapIdempotent ==
  [][(last'.op = "munmap" /\ CallAligned(last') /\ last'.len # 0
        /\ CallInUser(last')
        /\ \A vfn \in CallPages(last') : vmmap_lookup(p_vmmap[last'.pid], vfn) = 0) =>
       /\ last'.ret = 0
       /\ p_vmmap' = p_vmmap
       /\ mmobjs' = mmobjs]_vars

\* a do_munmap of two unmapped pages at the bottom of user memory returned 0
\* while the caller has areas mapped elsewhere
C12_Witness ==
  /\ last.op = "munmap" /\ last.ret = 0
  /\ last.addr = USER_MEM_LOW /\ last.len = 2 * PAGE_SIZE
  /\ Len(p_vmmap[last.pid]) = 2
  /\ \A vfn \in CallPages(last) : vmmap_lookup(p_vmmap[last.pid], vfn) = 0

\* C14: do_mmap leaves the reference count of the file it resolved from fd as
\* it found it on every return path after the descriptor is resolved: EACCES,
\* a failure of vmmap_map, and success.
C14_MmapFileRefs ==
  [][(last'.op = "mmap" /\ last'.ret \notin {-EINVAL, -EBADF}
        /\ ~HasBit(last'.flags, MAP_ANON)
        /\ last'.fd \in Fds /\ p_files[last'.pid][last'.fd] # NULL) =>
       LET f == p_files[last'.pid][last'.fd]
       IN files'[f].f_refcount = files[f].f_refcount]_vars

(***************************************************************************)
(* Properties of the S5FS vnode operations.                                *)
(***************************************************************************)
\* the step in which thread t runs s5fs_mkdir from its lock to its return
\* or its panic
MkdirStep(t) ==
  /\ kthreads[t].op = "mkdir"
  /\ kthreads[t].pc = "body"
  /\ kthreads'[t].pc \in {"done", "panic"}

\* C13: when s5fs_mkdir returns an error, the parent has no entry for the
\* name, no inode has been taken from the free inodes, and the parent's link
\* count and every vnode reference count are what they were before the call.
\* Checked under SpecMkdir.
C13_MkdirFailureUndone ==
  [][\A t \in Threads :
       (MkdirStep(t) /\ kthreads'[t].ret < 0) =>
          /\ EntryIndex(s5_inodes'[kthreads[t].v].entries, kthreads[t].name) = 0
          /\ FreeInodes(s5_inodes') = FreeInodes(s5_inodes)
          /\ s5_inodes'[kthreads[t].v].linkcount = s5_inodes[kthreads[t].v].linkcount
          /\ s5_vnodes' = s5_vnodes]_vars

\* C15: a thread whose vnode operation has returned, with success or with
\* an error, holds exactly the vnode mutexes it held when it entered the
\* operation.  Checked under SpecS5Ops.
C15_MutexesReleased ==
  \A t \in Threads :
     kthreads[t].pc = "done" => Held(vn_mutex, t) = kthreads[t].held

\* s5fs_mkdir has returned the error of a failed s5_link of "."
C15_Witness ==
  \E t \in Threads :
     /\ kthreads[t].pc = "done"
     /\ kthreads[t].op = "mkdir"
     /\ kthreads[t].fail = 3
     /\ kthreads[t].ret = -ENOSPC
     /\ Held(vn_mutex, t) = {}

\* C16: no set of threads is reachable in which every thread waits for a
\* vnode mutex held by another thread of the set.  Checked under SpecS5.
C16_NoDeadlock ==
  ~ \E S \in SUBSET Threads :
       /\ S # {}
       /\ \A t \in S : /\ Waiting(t)
                       /\ vn_mutex[Wants(kthreads[t])] \in S \ {t}

\* C17: s5fs_mkdir with every subroutine succeeding returns 0, the new
\* directory's link count is 2 and the parent's link count is one higher
\* than before the call.  Checked under SpecMkdir.
C17_MkdirLinkCounts ==
  [][\A t \in Threads :
       (/\ MkdirStep(t)
        /\ kthreads[t].fail = 0
        /\ FreeInodes(s5_inodes) # {}) =>
          /\ ~panicked'
          /\ kthreads'[t].ret = 0
          /\ \E ino \in FreeInodes(s5_inodes) :
               /\ s5_find_dirent(s5_inodes', kthreads[t].v, kthreads[t].name) = ino
               /\ s5_inodes'[ino].linkcount = 2
          /\ s5_inodes'[kthreads[t].v].linkcount
               = s5_inodes[kthreads[t].v].linkcount + 1]_vars

\* the inode s5fs_rmdir of thread t is to remove, and what it holds
RmdirTarget(t) == s5_find_dirent(s5_inodes, kthreads[t].v, kthreads[t].name)
LiveEntries(ino) ==
  {i \in 1 .. Len(s5_inodes[ino].entries) :
     s5_inodes[ino].entries[i].name \notin {".", ".."}}
RmdirCalled(t) ==
  /\ kthreads[t].op = "rmdir"
  /\ kthreads[t].pc = "lock"
  /\ RmdirTarget(t) >= 0
  /\ s5_inodes[RmdirTarget(t)].type = "dir"

\* C18: s5fs_mkdir of a name that is not in the directory returns 0, and
\* s5fs_rmdir of a directory that holds "." and ".." only returns 0, after
\* which the name is not found in the parent and the parent's link count is
\* one lower than before the rmdir, its value before the mkdir.  Checked
\* under SpecRmdir.
C18_MkdirRmdir ==
  /\ \A t \in Threads :
       (/\ kthreads[t].op = "mkdir" /\ kthreads[t].pc = "lock"
        /\ FreeInodes(s5_inodes) # {})
       ~> (/\ kthreads[t].op = "mkdir" /\ kthreads[t].pc = "done"
           /\ kthreads[t].ret = 0)
  /\ \A t \in Threads : \A n \in 1 .. (MaxRefs + MaxCalls) :
       (/\ RmdirCalled(t)
        /\ LiveEntries(RmdirTarget(t)) = {}
        /\ s5_inodes[kthreads[t].v].linkcount = n)
       ~> (/\ kthreads[t].op = "rmdir" /\ kthreads[t].pc = "done"
           /\ kthreads[t].ret = 0
           /\ s5_find_dirent(s5_inodes, kthreads[t].v, kthreads[t].name) = -ENOENT
           /\ s5_inodes[kthreads[t].v].linkcount = n - 1)

\* C19: s5fs_rmdir of a directory that holds an entry other than "." and
\* ".." returns -ENOTEMPTY, and the inodes (entries and link counts) are
\* then what they were at the call.  Checked under SpecRmdir.
C19_RmdirNotEmpty ==
  \A t \in Threads : \A d \in Inos :
    (/\ RmdirCalled(t)
     /\ RmdirTarget(t) = d
     /\ LiveEntries(d) # {})
    ~> (/\ kthreads[t].op = "rmdir" /\ kthreads[t].pc = "done"
        /\ kthreads[t].ret = -ENOTEMPTY
        /\ s5_find_dirent(s5_inodes, kthreads[t].v, kthreads[t].name) = d
        /\ LiveEntries(d) # {})

(***************************************************************************)
(* Properties of mount and unmount, checked under SpecMount.               *)
(***************************************************************************)
\* s5fs_mount got as far as s5_check_super (line 153)
MountChecked ==
  /\ s5_super.op = "mount"
  /\ s5_super.dev = "disk0"
  /\ ~s5_super.nomem

\* C20: when s5_check_super fails in s5fs_mount or in s5fs_umount, or
\* s5fs_check_refcounts fails in s5fs_umount, the kernel has panicked.
C20_CorruptionPanics ==
  /\ (MountChecked /\ s5_check_super(s5_super.super) # 0) => panicked
  /\ (/\ s5_super.op = "umount"
      /\ \/ s5_check_super(s5_super.super) # 0
         \/ s5fs_check_refcounts(s5_inodes, s5_super.fs_root) # 0) => panicked

(***************************************************************************)
(* Properties of the link counts, checked under SpecRefs.                  *)
(***************************************************************************)
\* C21: in a file system built from a valid empty root by mkdir and create
\* calls that succeeded, s5fs_check_refcounts returns 0 whenever no
\* operation is under way, and s5fs_umount has not panicked.
C21_RefcountsAgree ==
  /\ (\A t \in Threads : kthreads[t].op = "none") =>
        s5fs_check_refcounts(s5_inodes, s5_super.fs_root) = 0
  /\ s5_super.op = "umount" => ~panicked

(***************************************************************************)
(* Properties of the calls into the s5_ subroutines.                       *)
(***************************************************************************)
\* the inode s5_alloc_inode is about to hand to thread t, as a set
NewInode(t) ==
  IF kthreads[t].fail = 1 \/ FreeInodes(s5_inodes) = {} THEN {}
  ELSE {CHOOSE i \in FreeInodes(s5_inodes) : \A j \in FreeInodes(s5_inodes) : i <= j}

\* the inode the entry name of directory dir names, as a set
Named(dir, name) ==
  IF s5_find_dirent(s5_inodes, dir, name) < 0 THEN {}
  ELSE {s5_find_dirent(s5_inodes, dir, name)}

\* the vnodes the s5_ calls of the step thread t is about to take read or
\* modify, each with the mutexes t holds at the call: create 376, mknod 410,
\* lookup 426, link 452, unlink 471, mkdir 509-521, rmdir 549 and 575-581,
\* readdir 597, read 326, write 336, the page hooks 638-690
S5SubrCalls(t) ==
  LET th == kthreads[t]
      held == Held(vn_mutex, t)
      call(vs) == [vnodes |-> vs, held |-> held]
  IN IF th.pc = "body"
     THEN CASE th.op \in {"create", "mknod"} ->
                 {call({th.v} \cup new) : new \in {NewInode(t)}}
            [] th.op = "mkdir" ->
                 IF NewInode(t) = {} THEN {}
                 ELSE {call({th.v} \cup NewInode(t)), call(NewInode(t))}
            [] th.op = "link" -> {call({th.v, th.src})}
            [] th.op = "unlink" -> {call({th.v} \cup Named(th.v, th.name))}
            [] OTHER -> {call({th.v})}
     ELSE IF th.pc \in {"rd0_body", "rd_body"}
     THEN {call({th.vn})}
          \cup (IF s5fs_rmdir_loop(
                      IF th.pc = "rd0_body"
                      THEN readdir_status(s5_inodes, th.vn, 0) ELSE th.offset,
                      readdir_entry(s5_inodes, th.vn,
                                    IF th.pc = "rd0_body" THEN 0 ELSE th.offset,
                                    th.entry)) = "remove"
                THEN {[vnodes |-> {th.vn, th.v}, held |-> held \ {th.vn}]}
                ELSE {})
     ELSE {}

\* C25: every call into an s5_ subroutine is made by a thread that holds the
\* mutex of every vnode the subroutine reads or modifies.  Checked under
\* SpecS5Ops.
C25_SubrLocked ==
  \A t \in Threads : \A c \in S5SubrCalls(t) : c.vnodes \subseteq c.held

\* C27: a vnode operation that returns leaves every vnode reference count as
\* it was when the operation began its work, except that create and lookup
\* may have added one reference, the one of the vnode they stored in their
\* result.  Checked under SpecS5Ops.
C27_VnodeRefsBalanced ==
  [][\A t \in Threads :
       (/\ kthreads[t].pc \in {"body", "rd0_body", "rd_body"}
        /\ kthreads'[t].pc = "done") =>
          LET th == kthreads[t]
              before == IF th.op = "rmdir" /\ th.pc # "body"
                        THEN [s5_vnodes EXCEPT ![th.vn] = @ - 1]
                        ELSE s5_vnodes
          IN IF th.op \in {"create", "lookup"}
             THEN \/ s5_vnodes' = before
                  \/ \E i \in Inos : s5_vnodes' = [before EXCEPT ![i] = @ + 1]
             ELSE s5_vnodes' = before]_vars

\* C26: no thread is at a kmutex_lock of a vnode mutex that it holds itself
\* (from where it could not return).  Checked under SpecS5Ops.
C26_NoRelock ==
  \A t \in Threads :
     kthreads[t].pc \in LockPcs => vn_mutex[Wants(kthreads[t])] # t

\* C24: when do_mmap or do_munmap returns success, tlb_flush_range has been
\* called over exactly the byte range [start, start + len) the call installed
\* or removed
C24_TlbFlushed ==
  [][(last'.op \in {"mmap", "munmap"} /\ last'.ret = 0) =>
       LET start == IF last'.op = "mmap" THEN PN_TO_ADDR(last'.out)
                    ELSE last'.addr
       IN last'.tlb = [vaddr |-> start, pages |-> last'.len \div PAGE_SIZE]]_vars

\* C28: do_fork makes the child runnable as its last step before returning:
\* at that moment the child's context has eip at the user-mode entry, esp at
\* the prepared register frame and the page directory of the child, and the
\* parent's user page-table entries are unmapped and the TLB flushed
C28_ChildRunnableLast ==
  [][\A c \in runq' \ runq :
       /\ kt_ctx'[c].c_eip = "userland_entry"
       /\ kt_ctx'[c].regs = fork_setup_stack([r_eax |-> fk.eax])
       /\ kt_ctx'[c].c_pdptr = c
       /\ ~pt_user'[fk.parent]
       /\ ~tlb_user'
       /\ fork_tail[fk'.pc] = "return"]_vars

\* the child has just been made runnable by a parent that had user pages in
\* its page directory
C28_Witness == fk.pc # 0 /\ fk.child \in runq /\ fk.mapped

\* the do_open calls that hold a descriptor: blocked in open_namev, or about
\* to return one
HoldsFd(o) == o.pc = "namev" \/ (o.pc = "done" /\ o.ret >= 0)

\* C29: do_open calls of two threads of one process that interleave at
\* open_namev never hold the same descriptor; a call reserves the lowest slot
\* that is empty when it starts and returns that slot on success; with every
\* slot occupied it returns -EMFILE and leaves the table alone
C29_OpenSlots ==
  [][/\ \A t, u \in Threads :
          (t # u /\ HoldsFd(opens'[t]) /\ HoldsFd(opens'[u])) =>
             opens'[t].new_fd # opens'[u].new_fd
     /\ \A t \in Threads :
          /\ (opens[t].pc = "idle" /\ opens'[t].pc # "idle") =>
                IF EmptyFds(p_files[1]) = {}
                THEN /\ opens'[t].pc = "done"
                     /\ opens'[t].ret = -EMFILE
                     /\ p_files' = p_files
                ELSE opens'[t].pc = "namev" =>
                       /\ opens'[t].new_fd \in EmptyFds(p_files[1])
                       /\ \A fd \in EmptyFds(p_files[1]) : opens'[t].new_fd <= fd
                       /\ p_files'[1][opens'[t].new_fd] = opens'[t].f
          /\ (opens[t].pc = "namev" /\ opens'[t].pc = "done"
              /\ opens'[t].ret >= 0) =>
                /\ opens'[t].ret = opens[t].new_fd
                /\ p_files'[1][opens'[t].ret] = opens[t].f]_vars

\* one call is blocked in open_namev while the call of another thread, begun
\* after it, is about to return a descriptor
C29_Witness ==
  \E t, u \in Threads :
    /\ t # u
    /\ opens[t].pc = "namev"
    /\ opens[u].pc = "done" /\ opens[u].ret >= 0

\* C22: after s5fs_dirtypage returns 0 the block of the offset is allocated:
\* a sparse offset gets a block of the free list, or -ENOSPC when there is
\* none; for an offset that has a block 0 is returned and nothing is allocated
C22_DirtypageAllocates ==
  [][pageop'.op = "dirtypage" =>
       LET slot == S5_DATA_BLOCK(pageop'.offset)
       IN /\ pageop'.ret = 0 => s5_blocks'.ptrs[slot] # 0
          /\ s5_blocks.ptrs[slot] = 0 =>
               IF s5_blocks.free = {}
               THEN pageop'.ret = -ENOSPC /\ s5_blocks' = s5_blocks
               ELSE /\ pageop'.ret = 0
                    /\ s5_blocks'.ptrs[slot] \in s5_blocks.free
                    /\ s5_blocks'.free = s5_blocks.free \ {s5_blocks'.ptrs[slot]}
          /\ s5_blocks.ptrs[slot] # 0 =>
               pageop'.ret = 0 /\ s5_blocks' = s5_blocks]_vars

\* C23: s5fs_fillpage never allocates: block pointers and free list are as
\* before; a sparse offset gives a whole page of zeros and 0, and an offset
\* with a block gives the contents of that block
C23_FillpageReads ==
  [][pageop'.op = "fillpage" =>
       LET block_no == s5_blocks.ptrs[S5_DATA_BLOCK(pageop'.offset)]
       IN /\ s5_blocks' = s5_blocks
          /\ block_no = 0 =>
               pageop'.ret = 0 /\ pageop'.buf = [len |-> PAGE_SIZE, val |-> 0]
          /\ (block_no # 0 /\ pageop'.ret = 0) =>
               pageop'.buf = [len |-> PAGE_SIZE,
                              val |-> s5_blocks.data[block_no]]]_vars

\* fillpage of a sparse offset while the free list has a block to give and
\* another offset of the file holds written data
C23_Witness ==
  /\ pageop.op = "fillpage" /\ pageop.sparse /\ pageop.ret = 0
  /\ s5_blocks.free # {}
  /\ \E b \in BlockIdx : s5_blocks.ptrs[b] # 0 /\ s5_blocks.data[s5_blocks.ptrs[b]] # 0

====
